---- MODULE Spec2Model ----
(***************************************************************************)
(* Budget-controlled payment authorization (MasterTreasurer, BudgetManager,*)
(* PaymentLedger) and the per-service CircuitBreaker of the gateway.       *)
(*                                                                         *)
(* Amounts are integers in base units (the code keeps them as decimal      *)
(* strings and computes on BigInt, so there is no overflow to model).      *)
(* A day is the UTC calendar day of `new Date()`, modelled as a day number.*)
(***************************************************************************)
EXTENDS Integers, FiniteSets, Sequences, TLC

(***************************************************************************)
(* Bounds of the model.                                                    *)
(***************************************************************************)
\* onPaymentRequired calls suspended in the wallet at the same time
MaxSuspended == 2
\* ledger entries
MaxEntries == 2
\* requirement amounts are 1..MaxAmount
MaxAmount == 3
\* allocateToAgent amounts are 1..MaxAlloc
MaxAlloc == 2
\* days are 0..MaxDay
MaxDay == 1
\* a daily bucket is not credited beyond MaxBucket (caps repeated credits)
MaxBucket == 4
\* ledger entries in the runs that observe overlapping calls
MaxSettled == 1

(***************************************************************************)
(* BudgetConfig: the immutable snapshot given to the BudgetManager.        *)
(***************************************************************************)
totalBudget == 3
dailyLimit == 3
perRequestLimit == 2
autoApproveUnder == 1

Agents == {"A", "B"}
Amounts == 1..MaxAmount
Days == 0..MaxDay
\* "other" stands for every value outside the five named ones
Statuses == {"accepted", "rejected", "declined", "error", "sending", "other"}
\* an authorization id that no onPaymentRequired call ever returned
NoId == 0

VARIABLES
    entries,          \* PaymentLedger.entries: id -> [agentId, amount, status]
    dailySpending,    \* PaymentLedger.dailySpending: day -> accumulated amount
    agentAllocations, \* BudgetManager.agentAllocations: agentId -> [allocated, reserved]
    pendingContexts,  \* MasterTreasurer.pendingContexts: id -> agentId
    suspended,        \* onPaymentRequired calls awaiting wallet.createPayment, oldest first
    today,            \* the current UTC day
    ret,              \* what the last onPaymentRequired call returned, and why
    hist,             \* per suspended call: the budget available before it, and
                      \* whether that budget was raised since (observation only)
    circuitBreakers,  \* SubAgentGateway.circuitBreakers: service id ->
                      \*   [state, failures, successes, lastFailure]
    inflight,         \* per breaker: operations admitted by execute and not yet
                      \*   completed, counted by the state that admitted them
    now,              \* Date.now(), in ms
    cbRet,            \* how the last execute call ended
    streak,           \* per breaker: failures completed since the last success,
                      \*   reset or creation (observation only)
    held,             \* the reservations of allocated services whose tokens
                      \*   BudgetManager.reserve returned to a direct caller
                      \*   and that the caller has not released (observation only)
    registry,         \* SubAgentRegistry: service id -> [status, hasTool, client]
    call,             \* the callTool / callToolWithFallback call in progress
    gwRet,            \* the ToolResult the last gateway call returned
    seen,             \* the last status onStatus was called with, and the one
                      \*   before it (observation only)
    named             \* the agentId and toolName the last onPaymentRequired
                      \*   call derived from its context

tvars == <<entries, dailySpending, agentAllocations, pendingContexts, suspended, today, ret>>

cbvars == <<circuitBreakers, inflight, now, cbRet, streak>>

apivars == <<held>>

gwvars == <<registry, call, gwRet>>

obsvars == <<seen, named>>

(***************************************************************************)
(* PaymentLedger queries.                                                  *)
(***************************************************************************)
RECURSIVE SumAmount(_, _)
SumAmount(es, ids) ==
    IF ids = {} THEN 0
    ELSE LET i == CHOOSE x \in ids : TRUE
         IN  es[i].amount + SumAmount(es, ids \ {i})

getTotalSpent(es) ==
    SumAmount(es, {i \in DOMAIN es : es[i].status = "accepted"})

getSpentByAgent(es, agentId) ==
    SumAmount(es, {i \in DOMAIN es : es[i].agentId = agentId /\ es[i].status = "accepted"})

getTodaySpending(ds, day) == ds[day]

addToDailySpending(ds, day, amount) == [ds EXCEPT ![day] = @ + amount]

(***************************************************************************)
(* PaymentLedger.recordAuthorization: entries.set(id, pending entry).      *)
(* The model numbers the entries in the order of their insertion: a new id *)
(* is Len(es) + 1, and a Map keeps the position of a key that is set again.*)
(***************************************************************************)
\* Map.set(id, e)
setEntry(es, id, e) ==
    IF id \in DOMAIN es THEN [es EXCEPT ![id] = e] ELSE Append(es, e)

recordAuthorization(es, id, agentId, amount) ==
    setEntry(es, id, [id |-> id, agentId |-> agentId, amount |-> amount,
                      status |-> "pending"])

(***************************************************************************)
(* PaymentLedger.updateStatus: the new entries and the new buckets.        *)
(***************************************************************************)
updateStatusEntries(es, id, status) ==
    IF id \notin DOMAIN es THEN es
    ELSE [es EXCEPT ![id].status = status]

updateStatusDaily(es, ds, day, id, status) ==
    IF id \notin DOMAIN es THEN ds
    ELSE IF status = "accepted" THEN addToDailySpending(ds, day, es[id].amount)
    ELSE ds

(***************************************************************************)
(* BudgetManager.                                                          *)
(***************************************************************************)
allocateEntry(al, agentId, amount) ==
    [a \in DOMAIN al \cup {agentId} |->
        IF a = agentId THEN [allocated |-> amount, reserved |-> 0] ELSE al[a]]

\* a check that also denies an amount equal to what the service has left
canApproveStrict(es, ds, al, day, agentId, amount) ==
    IF amount > perRequestLimit THEN "per-request"
    ELSE IF getTodaySpending(ds, day) + amount > dailyLimit THEN "daily"
    ELSE IF getTotalSpent(es) + amount > totalBudget THEN "total"
    ELSE IF agentId \in DOMAIN al
            /\ amount >= al[agentId].allocated - getSpentByAgent(es, agentId)
                           - al[agentId].reserved
         THEN "allocation"
    ELSE "ok"

\* the reason of the denial, or "ok"
canApprove(es, ds, al, day, agentId, amount) ==
    IF amount > perRequestLimit THEN "per-request"
    ELSE IF getTodaySpending(ds, day) + amount > dailyLimit THEN "daily"
    ELSE IF getTotalSpent(es) + amount > totalBudget THEN "total"
    ELSE IF agentId \in DOMAIN al
            /\ amount > al[agentId].allocated - getSpentByAgent(es, agentId)
                          - al[agentId].reserved
         THEN "allocation"
    ELSE "ok"

isAutoApprovable(amount) == amount <= autoApproveUnder

\* a reserve that holds nothing
reserveNoHold(al, agentId, amount) == al

\* a reserve that holds the amount twice
reserveDouble(al, agentId, amount) ==
    IF agentId \notin DOMAIN al THEN al
    ELSE [al EXCEPT ![agentId].reserved = @ + 2 * amount]

\* the allocation table after a successful reserve
reserve(al, agentId, amount) ==
    IF agentId \notin DOMAIN al THEN al
    ELSE [al EXCEPT ![agentId].reserved = @ + amount]

\* a release without the floor at zero
releaseNoFloor(al, agentId, amount) ==
    IF agentId \notin DOMAIN al THEN al
    ELSE [al EXCEPT ![agentId].reserved = @ - amount]

releaseReservation(al, agentId, amount) ==
    IF agentId \notin DOMAIN al THEN al
    ELSE [al EXCEPT ![agentId].reserved = IF @ > amount THEN @ - amount ELSE 0]

(***************************************************************************)
(* MasterTreasurer.onStatus: the status vocabulary mapped to the ledger's. *)
(***************************************************************************)
ledgerStatus(status) ==
    CASE status = "accepted" -> "accepted"
      [] status \in {"rejected", "declined"} -> "rejected"
      [] status = "error" -> "error"
      [] OTHER -> "pending"

isTerminal(status) == status \in {"accepted", "rejected", "declined", "error"}

EmptyMap == [x \in {} |-> 0]

dropKey(m, k) == [x \in DOMAIN m \ {k} |-> m[x]]

RemoveAt(s, i) == SubSeq(s, 1, i - 1) \o SubSeq(s, i + 1, Len(s))

\* allocated - spentByAgent - reserved of an allocated service
Available(es, al, agentId) ==
    al[agentId].allocated - getSpentByAgent(es, agentId) - al[agentId].reserved

TreasurerInit ==
    /\ entries = << >>
    /\ dailySpending = [d \in Days |-> 0]
    /\ agentAllocations = EmptyMap
    /\ pendingContexts = EmptyMap
    /\ suspended = << >>
    /\ today = 0
    /\ ret = [value |-> "-", why |-> "-"]
    /\ hist = << >>

(***************************************************************************)
(* MasterTreasurer.allocateBudgetToAgent -> BudgetManager.allocateToAgent. *)
(***************************************************************************)
allocateToAgent(agentId, amount) ==
    /\ agentAllocations' = allocateEntry(agentAllocations, agentId, amount)
    /\ UNCHANGED <<entries, dailySpending, pendingContexts, suspended, today, ret>>

(***************************************************************************)
(* MasterTreasurer.onPaymentRequired.  The method runs without suspension  *)
(* up to `await wallet.createPayment`, so the check and the reservation    *)
(* are one step; the wallet's answer is a later step.                      *)
(***************************************************************************)
\* an empty list that is let through to the wallet
onPaymentRequiredEmptyToWallet ==
    /\ suspended' = Append(suspended, [agentId |-> "A", amount |-> 1])
    /\ ret' = [value |-> "null", why |-> "empty"]
    /\ UNCHANGED <<entries, dailySpending, agentAllocations, pendingContexts, today>>

\* requirements = []: returns null
onPaymentRequiredEmpty ==
    /\ ret' = [value |-> "null", why |-> "empty"]
    /\ UNCHANGED <<entries, dailySpending, agentAllocations, pendingContexts, suspended, today>>

\* canApprove denies (reserve, which runs the same check, never does after it):
\* returns null
onPaymentRequiredDenied(agentId, amount) ==
    /\ canApprove(entries, dailySpending, agentAllocations, today, agentId, amount) # "ok"
    /\ ret' = [value |-> "null", why |-> "denied"]
    /\ UNCHANGED <<entries, dailySpending, agentAllocations, pendingContexts, suspended, today>>

\* canApprove allows, reserve succeeds, the call suspends in the wallet
onPaymentRequiredReserve(agentId, amount) ==
    /\ canApprove(entries, dailySpending, agentAllocations, today, agentId, amount) = "ok"
    /\ agentAllocations' = reserve(agentAllocations, agentId, amount)
    /\ suspended' = Append(suspended, [agentId |-> agentId, amount |-> amount])
    /\ UNCHANGED <<entries, dailySpending, pendingContexts, today, ret>>

\* wallet.createPayment resolves for the i-th suspended call: record the
\* authorization, remember the context, return {payment, authorizationId}
onPaymentRequiredAuthorized(i) ==
    /\ i \in DOMAIN suspended
    \* authorizationId = crypto.randomUUID(): an id the ledger does not hold
    /\ entries' = recordAuthorization(entries, Len(entries) + 1,
                                      suspended[i].agentId, suspended[i].amount)
    /\ pendingContexts' = [k \in DOMAIN pendingContexts \cup {Len(entries) + 1} |->
                              IF k = Len(entries) + 1 THEN suspended[i].agentId
                              ELSE pendingContexts[k]]
    /\ suspended' = RemoveAt(suspended, i)
    /\ ret' = [value |-> "authorization", why |-> "-"]
    /\ UNCHANGED <<dailySpending, agentAllocations, today>>

\* wallet.createPayment throws for the i-th suspended call: release the
\* reservation, return null
onPaymentRequiredWalletFailed(i) ==
    /\ i \in DOMAIN suspended
    /\ agentAllocations' =
           releaseReservation(agentAllocations, suspended[i].agentId, suspended[i].amount)
    /\ suspended' = RemoveAt(suspended, i)
    /\ ret' = [value |-> "null", why |-> "wallet"]
    /\ UNCHANGED <<entries, dailySpending, pendingContexts, today>>

(***************************************************************************)
(* MasterTreasurer.onStatus(status, {authorizationId: id}).                *)
(***************************************************************************)
\* a release that also runs on sending
onStatusAllocationsSending(es, al, pc, status, id) ==
    IF status # "accepted" /\ id \in DOMAIN pc /\ id \in DOMAIN es
    THEN releaseReservation(al, pc[id], es[id].amount)
    ELSE al

\* a release found through the ledger entry, whatever the correlation
onStatusAllocationsByEntry(es, al, pc, status, id) ==
    IF status # "accepted" /\ status # "sending" /\ id \in DOMAIN es
    THEN releaseReservation(al, es[id].agentId, es[id].amount)
    ELSE al

onStatusAllocations(es, al, pc, status, id) ==
    IF status # "accepted" /\ status # "sending" /\ id \in DOMAIN pc /\ id \in DOMAIN es
    THEN releaseReservation(al, pc[id], es[id].amount)
    ELSE al

onStatusContexts(pc, status, id) ==
    IF isTerminal(status) THEN dropKey(pc, id) ELSE pc

onStatus(status, id) ==
    /\ entries' = updateStatusEntries(entries, id, ledgerStatus(status))
    /\ dailySpending' =
           updateStatusDaily(entries, dailySpending, today, id, ledgerStatus(status))
    /\ agentAllocations' =
           onStatusAllocations(entries, agentAllocations, pendingContexts, status, id)
    /\ pendingContexts' = onStatusContexts(pendingContexts, status, id)
    /\ UNCHANGED <<suspended, today, ret>>

\* midnight UTC passes
NextDay ==
    /\ today' = today + 1
    /\ UNCHANGED <<entries, dailySpending, agentAllocations, pendingContexts, suspended, ret>>

\* the credit of an accepted status stays within the bucket cap
WithinBucket(status, id) ==
    (status = "accepted" /\ id \in DOMAIN entries)
        => dailySpending[today] + entries[id].amount <= MaxBucket

\* no payment has been requested yet
SetUp == entries = << >> /\ suspended = << >> /\ ret.value = "-"

BreakerInit ==
    /\ circuitBreakers = EmptyMap
    /\ inflight = EmptyMap
    /\ now = 0
    /\ cbRet = [kind |-> "-", retryAfterMs |-> 0]
    /\ streak = EmptyMap

ApiInit == held = << >>

\* a ToolResult: success with the data of service `from`, or a failure
\* with its error; retryAfterS is the hint of the circuit-open message
NoResult == [success |-> FALSE, error |-> "-", from |-> "-", retryAfterS |-> 0]

NoCall == [phase |-> "idle", mode |-> "-", primary |-> "-", fallbacks |-> << >>,
           idx |-> 1, target |-> "-", adm |-> "-", invoked |-> << >>]

GatewayInit ==
    /\ registry = EmptyMap
    /\ call = NoCall
    /\ gwRet = NoResult

NoNames == [agentId |-> "-", toolName |-> "-"]

ObsInit ==
    /\ seen = [prev |-> "-", cur |-> "-"]
    /\ named = NoNames

Init == TreasurerInit /\ BreakerInit /\ ApiInit /\ GatewayInit /\ ObsInit

vars == <<entries, dailySpending, agentAllocations, pendingContexts, suspended, today, ret,
          hist, circuitBreakers, inflight, now, cbRet, streak, held, registry, call, gwRet,
          seen, named>>

\* the step is the treasurer's alone
TreasurerOnly == UNCHANGED <<hist, circuitBreakers, inflight, now, cbRet, streak, apivars,
                             gwvars, obsvars>>

(***************************************************************************)
(* The treasurer with two services; the allocations are made before the    *)
(* first payment request.                                                  *)
(***************************************************************************)
Next ==
    \/ \E a \in Agents, x \in 1..MaxAlloc :
          SetUp /\ allocateToAgent(a, x) /\ TreasurerOnly
    \/ onPaymentRequiredEmpty /\ TreasurerOnly
    \/ \E a \in Agents, x \in Amounts : onPaymentRequiredDenied(a, x) /\ TreasurerOnly
    \/ \E a \in Agents, x \in Amounts :
          /\ Len(suspended) < MaxSuspended
          /\ Len(suspended) + Len(entries) < MaxEntries
          /\ onPaymentRequiredReserve(a, x)
          /\ TreasurerOnly
    \/ \E i \in DOMAIN suspended : onPaymentRequiredAuthorized(i) /\ TreasurerOnly
    \/ \E i \in DOMAIN suspended : onPaymentRequiredWalletFailed(i) /\ TreasurerOnly
    \/ \E s \in Statuses, i \in DOMAIN entries \cup {NoId} :
          WithinBucket(s, i) /\ onStatus(s, i) /\ TreasurerOnly
    \/ today < MaxDay /\ NextDay /\ TreasurerOnly

Spec == Init /\ [][Next]_vars

(***************************************************************************)
(* Observation of the overlapping calls.  hist is parallel to suspended:   *)
(* availBefore is allocated - spentByAgent - reserved of the call's        *)
(* service just before the call's reservation; undisturbed says that no    *)
(* step has raised that service's available budget since; without is the   *)
(* service's reserved counter as it would be had the call reserved nothing *)
(* (the later reservations and releases of the others applied to it).      *)
(***************************************************************************)
Raised(agentId) ==
    /\ agentId \in DOMAIN agentAllocations
    /\ Available(entries', agentAllocations', agentId)
          > Available(entries, agentAllocations, agentId)

Mark(h) ==
    [k \in DOMAIN h |->
        IF Raised(suspended'[k].agentId) THEN [h[k] EXCEPT !.undisturbed = FALSE]
        ELSE h[k]]

\* the others reserve or release on the service: applied to each `without`
OthersReserved(h, agentId, amount) ==
    [k \in DOMAIN h |->
        IF suspended[k].agentId = agentId /\ agentId \in DOMAIN agentAllocations
        THEN [h[k] EXCEPT !.without = @ + amount]
        ELSE h[k]]

OthersReleased(h, agentId, amount) ==
    [k \in DOMAIN h |->
        IF suspended[k].agentId = agentId /\ agentId \in DOMAIN agentAllocations
        THEN [h[k] EXCEPT !.without = IF @ > amount THEN @ - amount ELSE 0]
        ELSE h[k]]

HistReserve(agentId, amount) ==
    hist' = Append(OthersReserved(hist, agentId, amount),
              IF agentId \in DOMAIN agentAllocations
              THEN [availBefore |-> Available(entries, agentAllocations, agentId),
                    undisturbed |-> TRUE,
                    without |-> agentAllocations[agentId].reserved]
              ELSE [availBefore |-> 0, undisturbed |-> TRUE, without |-> 0])

HistAuthorized(i) == hist' = Mark(RemoveAt(hist, i))

HistWalletFailed(i) ==
    hist' = Mark(RemoveAt(
                OthersReleased(hist, suspended[i].agentId, suspended[i].amount), i))

HistStatus(status, id) ==
    hist' = Mark(IF status # "accepted" /\ status # "sending"
                    /\ id \in DOMAIN pendingContexts /\ id \in DOMAIN entries
                 THEN OthersReleased(hist, pendingContexts[id], entries[id].amount)
                 ELSE hist)

\* the services whose calls are observed
Observed == {"A"}

\* declined and error act on the allocation as rejected does
ObservedStatuses == {"accepted", "rejected", "sending", "other"}

(***************************************************************************)
(* One service, within one day: concurrent payment requests, their wallet  *)
(* outcomes and the settlements of the authorizations.                     *)
(***************************************************************************)
NextOverlap ==
    \/ \E a \in Observed, x \in 1..MaxAlloc :
          SetUp /\ allocateToAgent(a, x) /\ TreasurerOnly
    \/ \E a \in Observed, x \in Amounts :
          onPaymentRequiredDenied(a, x) /\ TreasurerOnly
    \/ \E a \in Observed, x \in Amounts :
          /\ Len(suspended) < MaxSuspended
          /\ onPaymentRequiredReserve(a, x)
          /\ HistReserve(a, x) /\ UNCHANGED <<cbvars, apivars, gwvars, obsvars>>
    \/ \E i \in DOMAIN suspended :
          /\ Len(entries) < MaxSettled
          /\ onPaymentRequiredAuthorized(i)
          /\ HistAuthorized(i) /\ UNCHANGED <<cbvars, apivars, gwvars, obsvars>>
    \/ \E i \in DOMAIN suspended : onPaymentRequiredWalletFailed(i) /\ HistWalletFailed(i) /\ UNCHANGED <<cbvars, apivars, gwvars, obsvars>>
    \/ \E s \in ObservedStatuses, i \in DOMAIN entries :
          WithinBucket(s, i) /\ onStatus(s, i) /\ HistStatus(s, i) /\ UNCHANGED <<cbvars, apivars, gwvars, obsvars>>

SpecOverlap == Init /\ [][NextOverlap]_vars

(***************************************************************************)
(* CircuitBreaker.  One breaker per service id; config is the defaults of  *)
(* the constructor.                                                        *)
(***************************************************************************)
failureThreshold == 5
successThreshold == 2
timeout == 30000

\* lastFailure = null
NoFailure == -1
\* the clock advances by TickMs up to MaxNow
TickMs == 10000
MaxNow == 70000
\* operations in flight on one breaker
MaxInflight == 3
\* the failure counter is not driven beyond MaxFailures
MaxFailures == 7

\* new CircuitBreaker(name, config)
newBreaker ==
    [state |-> "closed", failures |-> 0, successes |-> 0, lastFailure |-> NoFailure]

\* a reset attempt that does not wait for the cooldown
shouldAttemptResetAtOnce(cb, t) == TRUE

\* a cooldown that is never over
shouldAttemptResetNever(cb, t) == FALSE

shouldAttemptReset(cb, t) ==
    IF cb.lastFailure = NoFailure THEN TRUE
    ELSE t - cb.lastFailure >= timeout

\* the whole cooldown, whatever has elapsed
getTimeUntilResetFull(cb, t) == timeout

getTimeUntilReset(cb, t) ==
    IF cb.lastFailure = NoFailure THEN 0
    ELSE IF timeout - (t - cb.lastFailure) > 0 THEN timeout - (t - cb.lastFailure) ELSE 0

\* execute, before the operation: open -> half-open once the cooldown is over
executeEnter(cb, t) ==
    IF cb.state = "open" /\ shouldAttemptReset(cb, t)
    THEN [cb EXCEPT !.state = "half-open"]
    ELSE cb

\* a success that closes the circuit at once
onSuccessCloses(cb) ==
    [cb EXCEPT !.failures = 0, !.successes = 0,
               !.state = IF @ = "half-open" THEN "closed" ELSE @]

\* a success that closes the circuit whatever its state
onSuccessClosesOpen(cb) ==
    [cb EXCEPT !.failures = 0, !.successes = 0, !.state = "closed"]

onSuccess(cb) ==
    LET c1 == [cb EXCEPT !.failures = 0] IN
    IF c1.state = "half-open"
    THEN LET c2 == [c1 EXCEPT !.successes = @ + 1] IN
         IF c2.successes >= successThreshold
         THEN [c2 EXCEPT !.state = "closed", !.successes = 0]
         ELSE c2
    ELSE c1

\* a failure that opens the circuit one failure late
onFailureLate(cb, t) ==
    LET c1 == [cb EXCEPT !.failures = @ + 1, !.lastFailure = t, !.successes = 0] IN
    IF c1.state = "half-open" THEN [c1 EXCEPT !.state = "open"]
    ELSE IF c1.state = "closed" /\ c1.failures > failureThreshold
         THEN [c1 EXCEPT !.state = "open"]
    ELSE c1

\* a failure that leaves the count of trial successes as it is
onFailureKeepsSuccesses(cb, t) ==
    LET c1 == [cb EXCEPT !.failures = @ + 1, !.lastFailure = t] IN
    IF c1.state = "half-open" THEN [c1 EXCEPT !.state = "open"]
    ELSE IF c1.state = "closed" /\ c1.failures >= failureThreshold
         THEN [c1 EXCEPT !.state = "open"]
    ELSE c1

onFailure(cb, t) ==
    LET c1 == [cb EXCEPT !.failures = @ + 1, !.lastFailure = t, !.successes = 0] IN
    IF c1.state = "half-open" THEN [c1 EXCEPT !.state = "open"]
    ELSE IF c1.state = "closed" /\ c1.failures >= failureThreshold
         THEN [c1 EXCEPT !.state = "open"]
    ELSE c1

\* a reset of the counters that leaves the circuit as it is
resetBreakerCounters(cb) ==
    [cb EXCEPT !.failures = 0, !.successes = 0]

resetBreaker(cb) ==
    [cb EXCEPT !.state = "closed", !.failures = 0, !.successes = 0,
               !.lastFailure = NoFailure]

Breakers == DOMAIN circuitBreakers

InflightCount(n) == inflight[n].closed + inflight[n].halfOpen

\* SubAgentGateway.getCircuitBreaker, when the service has no breaker yet
getCircuitBreaker(n) ==
    /\ n \notin Breakers
    /\ circuitBreakers' = [k \in Breakers \cup {n} |->
                              IF k = n THEN newBreaker ELSE circuitBreakers[k]]
    /\ inflight' = [k \in Breakers \cup {n} |->
                       IF k = n THEN [closed |-> 0, halfOpen |-> 0] ELSE inflight[k]]
    /\ streak' = [k \in Breakers \cup {n} |-> IF k = n THEN 0 ELSE streak[k]]
    /\ UNCHANGED <<now, cbRet>>

\* CircuitBreaker.execute up to `await operation()`: either the circuit-open
\* error is thrown, or the operation is invoked and the call suspends
execute(n) ==
    /\ n \in Breakers
    /\ LET cb == executeEnter(circuitBreakers[n], now) IN
       IF cb.state = "open"
       THEN /\ circuitBreakers' = [circuitBreakers EXCEPT ![n] = cb]
            /\ cbRet' = [kind |-> "circuit-open",
                         retryAfterMs |-> getTimeUntilReset(cb, now)]
            /\ UNCHANGED <<inflight, now, streak>>
       ELSE /\ circuitBreakers' = [circuitBreakers EXCEPT ![n] = cb]
            /\ inflight' = [inflight EXCEPT ![n] =
                              IF cb.state = "half-open"
                              THEN [@ EXCEPT !.halfOpen = @ + 1]
                              ELSE [@ EXCEPT !.closed = @ + 1]]
            /\ UNCHANGED <<now, cbRet, streak>>

\* one operation in flight, admitted in state `adm`, completes
Completed(n, adm) ==
    /\ n \in Breakers
    /\ inflight[n][adm] > 0
    /\ inflight' = [inflight EXCEPT ![n][adm] = @ - 1]

\* the awaited operation resolves: onSuccess, the result is returned
operationSucceeds(n, adm) ==
    /\ Completed(n, adm)
    /\ circuitBreakers' = [circuitBreakers EXCEPT ![n] = onSuccess(@)]
    /\ cbRet' = [kind |-> "result", retryAfterMs |-> 0]
    /\ streak' = [streak EXCEPT ![n] = 0]
    /\ UNCHANGED now

\* the awaited operation rejects: onFailure, the error is rethrown
operationFails(n, adm) ==
    /\ Completed(n, adm)
    /\ circuitBreakers' = [circuitBreakers EXCEPT ![n] = onFailure(@, now)]
    /\ cbRet' = [kind |-> "error", retryAfterMs |-> 0]
    /\ streak' = [streak EXCEPT ![n] = @ + 1]
    /\ UNCHANGED now

\* CircuitBreaker.reset
reset(n) ==
    /\ n \in Breakers
    /\ circuitBreakers' = [circuitBreakers EXCEPT ![n] = resetBreaker(@)]
    /\ streak' = [streak EXCEPT ![n] = 0]
    /\ UNCHANGED <<inflight, now, cbRet>>

Tick ==
    /\ now' = now + TickMs
    /\ UNCHANGED <<circuitBreakers, inflight, cbRet, streak>>

\* the step is the breakers' alone
BreakerOnly == UNCHANGED <<entries, dailySpending, agentAllocations, pendingContexts,
                           suspended, today, ret, hist, apivars, gwvars, obsvars>>

Admissions == {"closed", "halfOpen"}

\* the service whose breaker is exercised
Guarded == {"A"}

(***************************************************************************)
(* One breaker under concurrent execute calls, reset and the clock.        *)
(***************************************************************************)
NextBreaker ==
    \/ \E n \in Guarded : getCircuitBreaker(n) /\ BreakerOnly
    \/ \E n \in Guarded :
          /\ n \in Breakers
          /\ InflightCount(n) < MaxInflight
          /\ execute(n)
          /\ BreakerOnly
    \/ \E n \in Guarded, adm \in Admissions : operationSucceeds(n, adm) /\ BreakerOnly
    \/ \E n \in Guarded, adm \in Admissions :
          /\ n \in Breakers
          /\ circuitBreakers[n].failures < MaxFailures
          /\ operationFails(n, adm)
          /\ BreakerOnly
    \/ \E n \in Guarded : reset(n) /\ BreakerOnly
    \/ now < MaxNow /\ Tick /\ BreakerOnly

SpecBreaker == Init /\ [][NextBreaker]_vars

(***************************************************************************)
(* One breaker whose service recovers: operations fail only as long as a   *)
(* whole cooldown is left on the clock, and afterwards time advances, calls*)
(* keep coming and every operation that was invoked completes.             *)
(***************************************************************************)
\* no operation fails from now on
NoMoreFailures == now + timeout > MaxNow

CallArrives ==
    \E n \in Guarded :
        /\ n \in Breakers
        /\ InflightCount(n) < MaxInflight
        /\ execute(n)
        /\ BreakerOnly

CallSucceeds ==
    \E n \in Guarded, adm \in Admissions : operationSucceeds(n, adm) /\ BreakerOnly

CallFails ==
    \E n \in Guarded, adm \in Admissions :
        /\ n \in Breakers
        /\ circuitBreakers[n].failures < MaxFailures
        /\ ~NoMoreFailures
        /\ operationFails(n, adm)
        /\ BreakerOnly

TimePasses == now < MaxNow /\ Tick /\ BreakerOnly

NextRecovery ==
    \/ \E n \in Guarded : getCircuitBreaker(n) /\ BreakerOnly
    \/ CallArrives
    \/ CallSucceeds
    \/ CallFails
    \/ TimePasses

SpecRecovery ==
    /\ Init /\ [][NextRecovery]_vars
    /\ WF_vars(TimePasses) /\ WF_vars(CallArrives) /\ WF_vars(CallSucceeds)

(***************************************************************************)
(* The treasurer serving one service within one day: every outcome of      *)
(* onPaymentRequired, the empty requirements list included, and the        *)
(* settlements.                                                            *)
(***************************************************************************)
NextService ==
    \/ \E a \in Observed, x \in 1..MaxAlloc :
          SetUp /\ allocateToAgent(a, x) /\ TreasurerOnly
    \/ onPaymentRequiredEmpty /\ TreasurerOnly
    \/ \E a \in Observed, x \in Amounts : onPaymentRequiredDenied(a, x) /\ TreasurerOnly
    \/ \E a \in Observed, x \in Amounts :
          /\ Len(suspended) < MaxSuspended
          /\ onPaymentRequiredReserve(a, x)
          /\ TreasurerOnly
    \/ \E i \in DOMAIN suspended :
          /\ Len(entries) < MaxSettled
          /\ onPaymentRequiredAuthorized(i)
          /\ TreasurerOnly
    \/ \E i \in DOMAIN suspended : onPaymentRequiredWalletFailed(i) /\ TreasurerOnly
    \/ \E s \in ObservedStatuses, i \in DOMAIN entries :
          WithinBucket(s, i) /\ onStatus(s, i) /\ TreasurerOnly

SpecService == Init /\ [][NextService]_vars

(***************************************************************************)
(* One authorization of one service and the statuses reported for it, in   *)
(* any order and number, while further calls of the service wait for the   *)
(* wallet.                                                                 *)
(***************************************************************************)
\* onStatus, the status given to it noted
onStatusSeen(status, id) ==
    /\ seen' = [prev |-> seen.cur, cur |-> status]
    /\ named' = named
    /\ onStatus(status, id)

\* the step is the treasurer's, the statuses it is given are noted
StatusOnly == UNCHANGED <<hist, cbvars, apivars, gwvars>>

NextStatus ==
    \/ \E a \in Observed, x \in 1..MaxAlloc :
          SetUp /\ allocateToAgent(a, x) /\ TreasurerOnly
    \/ \E a \in Observed, x \in Amounts :
          /\ Len(suspended) < MaxSuspended
          /\ onPaymentRequiredReserve(a, x)
          /\ TreasurerOnly
    \/ \E i \in DOMAIN suspended :
          /\ entries = << >>
          /\ onPaymentRequiredAuthorized(i)
          /\ TreasurerOnly
    \/ \E i \in DOMAIN suspended : onPaymentRequiredWalletFailed(i) /\ TreasurerOnly
    \/ \E s \in Statuses, i \in DOMAIN entries :
          WithinBucket(s, i) /\ onStatusSeen(s, i) /\ StatusOnly
    \/ \E s \in Statuses : onStatus(s, NoId) /\ TreasurerOnly

SpecStatus == Init /\ [][NextStatus]_vars

(***************************************************************************)
(* MasterTreasurer.onPaymentRequired(requirements, context): the service   *)
(* id and the tool name are read from the optional context.                *)
(***************************************************************************)
\* a field that is undefined, or falsy
Absent == "-"

\* context === undefined
NoContext ==
    [present |-> FALSE, metaAgentId |-> Absent, paramsAgentId |-> Absent,
     method |-> Absent, paramsName |-> Absent, metaToolName |-> Absent]

\* the contexts given to onPaymentRequired: none, those that name the
\* service in every way and no tool, and those that name the tool in every
\* way and the service in their metadata
Contexts ==
    {NoContext} \cup
    {c \in [present : {TRUE}, metaAgentId : {Absent, "A"}, paramsAgentId : {Absent, "B"},
            method : {"tools/call", "other"}, paramsName : {Absent, "t1"},
            metaToolName : {Absent, "t2"}] :
        \/ c.method = "other" /\ c.paramsName = Absent /\ c.metaToolName = Absent
        \/ c.metaAgentId = "A" /\ c.paramsAgentId = Absent}

\* the service id read without a fallback
extractAgentIdNoFallback(ctx) ==
    IF ctx.metaAgentId # Absent THEN ctx.metaAgentId ELSE ctx.paramsAgentId

extractAgentId(ctx) ==
    IF ~ctx.present THEN "unknown"
    ELSE IF ctx.metaAgentId # Absent THEN ctx.metaAgentId
    ELSE IF ctx.paramsAgentId # Absent THEN ctx.paramsAgentId
    ELSE "unknown"

extractToolName(ctx) ==
    IF ~ctx.present THEN "unknown"
    ELSE IF ctx.method = "tools/call" /\ ctx.paramsName # Absent THEN ctx.paramsName
    ELSE IF ctx.metaToolName # Absent THEN ctx.metaToolName
    ELSE "unknown"

\* onPaymentRequired([requirement of amount], ctx) up to its return or to
\* the await of the wallet
onPaymentRequired(ctx, amount) ==
    /\ named' = [agentId |-> extractAgentId(ctx), toolName |-> extractToolName(ctx)]
    /\ seen' = seen
    /\ \/ onPaymentRequiredDenied(extractAgentId(ctx), amount)
       \/ onPaymentRequiredReserve(extractAgentId(ctx), amount)

\* the step is the treasurer's, the names it derives are noted
ContextOnly == UNCHANGED <<hist, cbvars, apivars, gwvars>>

(***************************************************************************)
(* The treasurer called with every kind of context, one call after the    *)
(* other; service "A" may have an allocation.                              *)
(***************************************************************************)
NextContext ==
    \/ \E a \in Observed, x \in 1..MaxAlloc :
          SetUp /\ allocateToAgent(a, x) /\ TreasurerOnly
    \/ onPaymentRequiredEmpty /\ TreasurerOnly
    \/ \E ctx \in Contexts, x \in Amounts :
          /\ suspended = << >>
          /\ onPaymentRequired(ctx, x)
          /\ ContextOnly
    \/ \E i \in DOMAIN suspended :
          /\ Len(entries) < MaxSettled
          /\ onPaymentRequiredAuthorized(i)
          /\ TreasurerOnly
    \/ \E i \in DOMAIN suspended : onPaymentRequiredWalletFailed(i) /\ TreasurerOnly

SpecContext == Init /\ [][NextContext]_vars

(***************************************************************************)
(* The BudgetManager and the PaymentLedger called directly, as their       *)
(* public methods allow.  ret holds what the last call returned.           *)
(***************************************************************************)
\* PaymentEntry["status"]
LedgerStatuses == {"pending", "accepted", "rejected", "error"}

\* PaymentLedger.recordAuthorization(id, agentId, toolName, requirements, payment)
recordAuthorizationCall(id, agentId, amount) ==
    /\ entries' = recordAuthorization(entries, id, agentId, amount)
    /\ UNCHANGED <<dailySpending, agentAllocations, today, ret, held>>

\* PaymentLedger.updateStatus(id, status)
updateStatusCall(id, status) ==
    /\ entries' = updateStatusEntries(entries, id, status)
    /\ dailySpending' = updateStatusDaily(entries, dailySpending, today, id, status)
    /\ UNCHANGED <<agentAllocations, today, ret, held>>

\* BudgetManager.allocateToAgent(agentId, amount)
allocateToAgentCall(agentId, amount) ==
    /\ agentAllocations' = allocateEntry(agentAllocations, agentId, amount)
    /\ UNCHANGED <<entries, dailySpending, today, ret, held>>

\* BudgetManager.canApprove(agentId, amount): {allowed, reason}
canApproveCall(agentId, amount) ==
    /\ UNCHANGED <<entries, dailySpending, agentAllocations, today, held>>
    /\ LET r == canApprove(entries, dailySpending, agentAllocations, today, agentId, amount)
       IN  ret' = [value |-> IF r = "ok" THEN "allowed" ELSE "denied", why |-> r]

\* BudgetManager.reserve(agentId, amount): a token, or null
reserveCall(agentId, amount) ==
    /\ UNCHANGED <<entries, dailySpending, today>>
    /\ LET r == canApprove(entries, dailySpending, agentAllocations, today, agentId, amount)
       IN  /\ agentAllocations' =
                  IF r = "ok" THEN reserve(agentAllocations, agentId, amount)
                  ELSE agentAllocations
           /\ ret' = [value |-> IF r = "ok" THEN "token" ELSE "null", why |-> r]
           /\ held' = IF r = "ok" /\ agentId \in DOMAIN agentAllocations
                      THEN Append(held, [agentId |-> agentId, amount |-> amount])
                      ELSE held

\* BudgetManager.releaseReservation(agentId, amount)
releaseReservationCall(agentId, amount) ==
    /\ agentAllocations' = releaseReservation(agentAllocations, agentId, amount)
    /\ UNCHANGED <<entries, dailySpending, today, ret>>

\* the caller gives back the i-th reservation it holds
releaseHeld(i) ==
    /\ i \in DOMAIN held
    /\ releaseReservationCall(held[i].agentId, held[i].amount)
    /\ held' = RemoveAt(held, i)

\* a release of an amount that the caller does not hold (never reserved, or
\* released before)
releaseUnheld(agentId, amount) ==
    /\ releaseReservationCall(agentId, amount)
    /\ held' = held

\* no reservation is outstanding on the service
NothingHeld(agentId) == \A i \in DOMAIN held : held[i].agentId # agentId

\* the step is the budget manager's and the ledger's alone
ApiOnly == UNCHANGED <<pendingContexts, suspended, hist, cbvars, gwvars, obsvars>>

(***************************************************************************)
(* The BudgetManager over a ledger with settled entries: service A may get *)
(* an allocation, service B has none.                                      *)
(***************************************************************************)
NextBudget ==
    \/ \E a \in Observed, x \in 1..MaxAlloc :
          NothingHeld(a) /\ allocateToAgentCall(a, x) /\ ApiOnly
    \/ \E a \in Agents, x \in 1..perRequestLimit :
          /\ Len(entries) < MaxSettled
          /\ recordAuthorizationCall(Len(entries) + 1, a, x)
          /\ ApiOnly
    \/ \E i \in DOMAIN entries :
          /\ entries[i].status = "pending"
          /\ updateStatusCall(i, "accepted")
          /\ ApiOnly
    \/ \E a \in Agents, x \in Amounts : canApproveCall(a, x) /\ ApiOnly
    \/ \E a \in Agents, x \in Amounts :
          Len(held) < MaxSuspended /\ reserveCall(a, x) /\ ApiOnly
    \/ \E i \in DOMAIN held : releaseHeld(i) /\ ApiOnly
    \/ \E a \in Agents, x \in Amounts : releaseUnheld(a, x) /\ ApiOnly
    \/ today < MaxDay /\ NextDay /\ TreasurerOnly

SpecBudget == Init /\ [][NextBudget]_vars

(***************************************************************************)
(* The BudgetManager with allocateToAgent called at any time, also while   *)
(* reservations of the service are held.                                   *)
(***************************************************************************)
NextRealloc ==
    \/ \E a \in Agents, x \in 1..MaxAlloc : allocateToAgentCall(a, x) /\ ApiOnly
    \/ \E a \in Agents, x \in Amounts :
          Len(held) < MaxSuspended /\ reserveCall(a, x) /\ ApiOnly
    \/ \E i \in DOMAIN held : releaseHeld(i) /\ ApiOnly

SpecRealloc == Init /\ [][NextRealloc]_vars

(***************************************************************************)
(* PaymentLedger.exportToJson / importFromJson.  The document holds the    *)
(* entries as an array in insertion order (Array.from(entries.values()))   *)
(* and the buckets as an object with one property per key of the Map       *)
(* (Object.fromEntries): here the set of <<day, amount>> pairs.            *)
(***************************************************************************)
exportToJson(es, ds) ==
    [entries |-> [k \in 1..Len(es) |-> es[k]],
     dailySpending |-> {<<d, ds[d]>> : d \in {x \in Days : ds[x] # 0}}]

RECURSIVE importEntriesFrom(_, _)
\* for (const entry of data.entries) this.entries.set(entry.id, entry)
importEntriesFrom(es, arr) ==
    IF arr = << >> THEN es
    ELSE importEntriesFrom(setEntry(es, Head(arr).id, Head(arr)), Tail(arr))

\* an import that does not clear the entries first
importFromJsonEntriesKept(es, doc) == importEntriesFrom(es, doc.entries)

\* this.entries.clear(), then the loop
importFromJsonEntries(es, doc) == importEntriesFrom(<< >>, doc.entries)

\* this.dailySpending = new Map(Object.entries(data.dailySpending))
importFromJsonDaily(ds, doc) ==
    [d \in Days |->
        IF \E p \in doc.dailySpending : p[1] = d
        THEN (CHOOSE p \in doc.dailySpending : p[1] = d)[2]
        ELSE 0]

NoBuckets == [d \in Days |-> 0]

\* ledgers that import a document: a new one, and ones in use whose
\* entries were accepted on some day
Targets ==
    {[entries |-> << >>, dailySpending |-> NoBuckets]}
    \cup {[entries |-> <<[id |-> 1, agentId |-> a, amount |-> 1, status |-> "accepted"]>>,
           dailySpending |-> [NoBuckets EXCEPT ![d] = 1]] : a \in Agents, d \in Days}
    \cup {[entries |-> <<[id |-> 1, agentId |-> "A", amount |-> 1, status |-> "accepted"],
                         [id |-> 2, agentId |-> "B", amount |-> 1, status |-> "pending"]>>,
           dailySpending |-> [NoBuckets EXCEPT ![d] = 1]] : d \in Days}

\* target.importFromJson(this.exportToJson()): the ledger `target` imports
\* the document this ledger exports; the variables hold the importing
\* ledger from then on
importFromJson(target) ==
    /\ ret' = [value |-> "imported",
               why |-> IF target.entries = << >> THEN "into-new" ELSE "into-used"]
    /\ UNCHANGED <<agentAllocations, today, held>>
    /\ LET doc == exportToJson(entries, dailySpending)
       IN  /\ entries' = importFromJsonEntries(target.entries, doc)
           /\ dailySpending' = importFromJsonDaily(target.dailySpending, doc)

\* the service has no entry other than the one with this id
OneEntryEach(id, agentId) ==
    \A i \in DOMAIN entries : entries[i].agentId = agentId => i = id

(***************************************************************************)
(* The PaymentLedger alone: authorizations recorded under new and under    *)
(* used ids, one per service, status updates of every kind, days passing,  *)
(* and the ledger saved and restored.                                      *)
(***************************************************************************)
NextLedger ==
    \/ \E id \in 1..(Len(entries) + 1), a \in Agents, x \in 1..perRequestLimit :
          OneEntryEach(id, a) /\ recordAuthorizationCall(id, a, x) /\ ApiOnly
    \/ \E id \in DOMAIN entries \cup {NoId}, st \in LedgerStatuses :
          WithinBucket(st, id) /\ updateStatusCall(id, st) /\ ApiOnly
    \/ \E t \in Targets : importFromJson(t) /\ ApiOnly
    \/ today < MaxDay /\ NextDay /\ TreasurerOnly

SpecLedger == Init /\ [][NextLedger]_vars

(***************************************************************************)
(* SubAgentRegistry, as the gateway reads it: a descriptor's status, does  *)
(* its tool list hold the requested operation, is there a client.          *)
(***************************************************************************)
Services == {"A", "B", "C"}

\* registerFromConfig: the descriptor before the first connection
registerAgent(n) ==
    /\ n \notin DOMAIN registry
    /\ registry' = [k \in DOMAIN registry \cup {n} |->
                       IF k = n
                       THEN [status |-> "offline", hasTool |-> FALSE, client |-> FALSE]
                       ELSE registry[k]]
    /\ UNCHANGED <<call, gwRet>>

\* connectToAgent succeeds: client stored, tools discovered, healthy
connectToAgent(n, tool) ==
    /\ n \in DOMAIN registry
    /\ registry' = [registry EXCEPT
                       ![n] = [status |-> "healthy", hasTool |-> tool, client |-> TRUE]]
    /\ UNCHANGED <<call, gwRet>>

\* connectToAgent fails, before the client is stored or at the discovery
\* of the tools after it: offline, the client map as it then is
connectToAgentFails(n, stored) ==
    /\ n \in DOMAIN registry
    /\ registry' = [registry EXCEPT ![n].status = "offline",
                                    ![n].client = @ \/ stored]
    /\ UNCHANGED <<call, gwRet>>

\* checkHealth, the ping succeeds: healthy
checkHealthSucceeds(n) ==
    /\ n \in DOMAIN registry
    /\ registry[n].client
    /\ registry' = [registry EXCEPT ![n].status = "healthy"]
    /\ UNCHANGED <<call, gwRet>>

\* checkHealth, the ping fails: offline, client deleted
checkHealthFails(n) ==
    /\ n \in DOMAIN registry
    /\ registry[n].client
    /\ registry' = [registry EXCEPT ![n].status = "offline", ![n].client = FALSE]
    /\ UNCHANGED <<call, gwRet>>

(***************************************************************************)
(* SubAgentGateway.callTool and callToolWithFallback.  One call runs at a  *)
(* time; it is suspended only while a remote call is awaited.              *)
(***************************************************************************)
\* how the remote call ends: a result, a result flagged isError, a fault
Outcomes == {"ok", "isError", "throws"}

\* Math.ceil(retryAfterMs / 1000) of CircuitOpenError's message
CeilSeconds(ms) == (ms + 999) \div 1000

Failure(error, n, hint) ==
    [success |-> FALSE, error |-> error, from |-> n, retryAfterS |-> hint]

\* a callTool whose catch lets a fault of the remote call through
callToolResultUncaught(n, outcome) ==
    CASE outcome = "ok" -> [success |-> TRUE, error |-> "-", from |-> n, retryAfterS |-> 0]
      [] outcome = "isError" -> Failure("tool-error", n, 0)
      [] OTHER -> Failure("raised", n, 0)

\* callTool, after execute returned or threw: the ToolResult
callToolResult(n, outcome) ==
    CASE outcome = "ok" -> [success |-> TRUE, error |-> "-", from |-> n, retryAfterS |-> 0]
      [] outcome = "isError" -> Failure("tool-error", n, 0)
      [] OTHER -> Failure("fault", n, 0)

\* one breaker for all the services
BreakerOfShared(n) ==
    IF Breakers = {} THEN newBreaker
    ELSE circuitBreakers[CHOOSE k \in Breakers : TRUE]

\* this.circuitBreakers.get(n), or the one getCircuitBreaker creates
BreakerOf(n) == IF n \in Breakers THEN circuitBreakers[n] ELSE newBreaker

\* a callTool result goes to the caller of callTool, or to the loop of
\* callToolWithFallback
Returned(c, n, res) ==
    IF c.mode = "tool" \/ res.success
    THEN /\ call' = [c EXCEPT !.phase = "done", !.target = n]
         /\ gwRet' = res
    ELSE /\ call' = [c EXCEPT !.phase = "returned", !.target = n]
         /\ gwRet' = NoResult

\* callTool(n) up to the await of the remote call, within the call c
startCallTool(n, c) ==
    /\ registry' = registry
    /\ IF n \notin DOMAIN registry
       THEN Returned(c, n, Failure("not-found", n, 0)) /\ UNCHANGED cbvars
       ELSE IF ~registry[n].client
       THEN Returned(c, n, Failure("no-connection", n, 0)) /\ UNCHANGED cbvars
       ELSE LET cb == executeEnter(BreakerOf(n), now)
                fl == IF n \in Breakers THEN inflight[n] ELSE [closed |-> 0, halfOpen |-> 0]
                adm == IF cb.state = "half-open" THEN "halfOpen" ELSE "closed"
            IN  /\ circuitBreakers' = [k \in Breakers \cup {n} |->
                                          IF k = n THEN cb ELSE circuitBreakers[k]]
                /\ streak' = [k \in Breakers \cup {n} |->
                                 IF k \in Breakers THEN streak[k] ELSE 0]
                /\ now' = now
                /\ IF cb.state = "open"
                   THEN /\ inflight' = [k \in Breakers \cup {n} |->
                                           IF k = n THEN fl ELSE inflight[k]]
                        /\ cbRet' = [kind |-> "circuit-open",
                                     retryAfterMs |-> getTimeUntilReset(cb, now)]
                        /\ Returned(c, n, Failure("unavailable", n,
                                        CeilSeconds(getTimeUntilReset(cb, now))))
                   ELSE /\ inflight' = [k \in Breakers \cup {n} |->
                                           IF k = n THEN [fl EXCEPT ![adm] = @ + 1]
                                           ELSE inflight[k]]
                        /\ cbRet' = cbRet
                        /\ call' = [c EXCEPT !.phase = "awaiting", !.target = n,
                                             !.adm = adm]
                        /\ gwRet' = NoResult

NoCallRunning == call.phase \in {"idle", "done"}

\* gateway.callTool(n, toolName, args)
callTool(n) ==
    /\ NoCallRunning
    /\ startCallTool(n, [NoCall EXCEPT !.mode = "tool", !.primary = n, !.invoked = <<n>>])

\* a fallback tried whatever its status
QualifiesUnhealthy(n) ==
    /\ n \in DOMAIN registry
    /\ registry[n].hasTool

\* the fallback may be tried: descriptor present, healthy, has the tool
Qualifies(n) ==
    /\ n \in DOMAIN registry
    /\ registry[n].status = "healthy"
    /\ registry[n].hasTool

\* the positions of the fallback list not yet passed that may be tried
Candidates(c) ==
    {j \in DOMAIN c.fallbacks : j >= c.idx /\ Qualifies(c.fallbacks[j])}

\* gateway.callToolWithFallback(p, toolName, args, fbs): the primary first
callToolWithFallback(p, fbs) ==
    /\ NoCallRunning
    /\ startCallTool(p, [NoCall EXCEPT !.mode = "fallback", !.primary = p,
                                      !.fallbacks = fbs, !.invoked = <<p>>])

\* the loop over the fallbacks after a failed callTool: skip what does not
\* qualify, call the first that does, or give up naming the primary
fallbackNext ==
    /\ call.phase = "returned"
    /\ IF Candidates(call) = {}
       THEN /\ call' = [call EXCEPT !.phase = "done", !.idx = Len(call.fallbacks) + 1]
            /\ gwRet' = Failure("all-failed", call.primary, 0)
            /\ UNCHANGED <<registry, cbvars>>
       ELSE LET j == CHOOSE k \in Candidates(call) : \A m \in Candidates(call) : k <= m
            IN  startCallTool(call.fallbacks[j],
                              [call EXCEPT !.idx = j + 1,
                                           !.invoked = Append(@, call.fallbacks[j])])

\* an operation that rejects on a result flagged isError
rejectsOnError(outcome) == outcome # "ok"

\* the operation given to execute rejects: only when client.callTool throws,
\* a result flagged isError is returned like any other
rejects(outcome) == outcome = "throws"

\* the awaited remote call ends: the breaker records it, callTool returns
remoteReturns(outcome) ==
    /\ call.phase = "awaiting"
    /\ IF rejects(outcome)
       THEN operationFails(call.target, call.adm)
       ELSE operationSucceeds(call.target, call.adm)
    /\ registry' = registry
    /\ Returned(call, call.target, callToolResult(call.target, outcome))

\* the step is the gateway's and the registry's alone
GatewayOnly == UNCHANGED <<tvars, hist, apivars, obsvars>>

\* the services callTool is asked for; "Z" is never registered
Callees == {"A", "Z"}

(***************************************************************************)
(* callTool over a registry whose services come and go, as time passes.    *)
(***************************************************************************)
NextGateway ==
    \/ registerAgent("A") /\ UNCHANGED cbvars /\ GatewayOnly
    \/ \E tool \in BOOLEAN :
          connectToAgent("A", tool) /\ UNCHANGED cbvars /\ GatewayOnly
    \/ \E stored \in BOOLEAN :
          connectToAgentFails("A", stored) /\ UNCHANGED cbvars /\ GatewayOnly
    \/ checkHealthSucceeds("A") /\ UNCHANGED cbvars /\ GatewayOnly
    \/ checkHealthFails("A") /\ UNCHANGED cbvars /\ GatewayOnly
    \/ \E n \in Callees : callTool(n) /\ GatewayOnly
    \/ \E o \in Outcomes :
          /\ call.phase = "awaiting"
          /\ o = "throws" => circuitBreakers[call.target].failures < MaxFailures
          /\ remoteReturns(o)
          /\ GatewayOnly
    \/ now < MaxNow /\ Tick /\ BreakerOnly /\ UNCHANGED gwvars

SpecGateway == Init /\ [][NextGateway]_vars

\* config.defaultTimeout, stored by the constructor and read nowhere
defaultTimeout == 30000

\* the clock of the gateway advances
GatewayTimePasses == now < MaxNow /\ Tick /\ BreakerOnly /\ UNCHANGED gwvars

(***************************************************************************)
(* callTool while time keeps passing.  The remote service answers when it  *)
(* does, or never: nothing in callTool ends the await.                     *)
(***************************************************************************)
SpecTimeout == Init /\ [][NextGateway]_vars /\ WF_vars(GatewayTimePasses)

\* the fallback lists given to callToolWithFallback; "Z" is never registered
FallbackLists == {<< >>, <<"B", "C">>, <<"C", "B">>, <<"Z", "B">>}

\* faults of remote calls the breakers hold at one time, at most
MaxFaults == 1

RECURSIVE FaultsHeld(_)
FaultsHeld(ns) ==
    IF ns = {} THEN 0
    ELSE LET n == CHOOSE k \in ns : TRUE
         IN  circuitBreakers[n].failures + FaultsHeld(ns \ {n})

(***************************************************************************)
(* callToolWithFallback over a registry whose services come and go.  The  *)
(* primary, called whatever its status, is also left offline with a client *)
(* by a failed discovery and brought back by a ping.                       *)
(***************************************************************************)
NextFallback ==
    \/ \E n \in Services : registerAgent(n) /\ UNCHANGED cbvars /\ GatewayOnly
    \/ \E n \in Services, tool \in BOOLEAN :
          connectToAgent(n, tool) /\ UNCHANGED cbvars /\ GatewayOnly
    \/ \E stored \in BOOLEAN :
          connectToAgentFails("A", stored) /\ UNCHANGED cbvars /\ GatewayOnly
    \/ checkHealthSucceeds("A") /\ UNCHANGED cbvars /\ GatewayOnly
    \/ \E n \in Services : checkHealthFails(n) /\ UNCHANGED cbvars /\ GatewayOnly
    \/ \E fbs \in FallbackLists : callToolWithFallback("A", fbs) /\ GatewayOnly
    \/ fallbackNext /\ GatewayOnly
    \/ \E o \in Outcomes :
          /\ call.phase = "awaiting"
          /\ o = "throws" => FaultsHeld(Breakers) < MaxFaults
          /\ remoteReturns(o)
          /\ GatewayOnly

SpecFallback == Init /\ [][NextFallback]_vars

\* gateway.resetCircuitBreaker(n): reset if the service has a breaker
resetCircuitBreaker(n) ==
    /\ IF n \in Breakers THEN reset(n) ELSE UNCHANGED cbvars
    /\ UNCHANGED gwvars

\* the services of the gateway with two services
Pair == {"A", "B"}

(***************************************************************************)
(* callTool on two connected services, each behind its own breaker, with   *)
(* resets and the clock.                                                   *)
(***************************************************************************)
NextIsolation ==
    \/ \E n \in Pair : registerAgent(n) /\ UNCHANGED cbvars /\ GatewayOnly
    \/ \E n \in Pair : connectToAgent(n, TRUE) /\ UNCHANGED cbvars /\ GatewayOnly
    \/ \E n \in Pair : callTool(n) /\ GatewayOnly
    \/ \E o \in Outcomes :
          /\ call.phase = "awaiting"
          /\ o = "throws" => circuitBreakers[call.target].failures < MaxFailures
          /\ remoteReturns(o)
          /\ GatewayOnly
    \/ \E n \in Pair : n \in Breakers /\ resetCircuitBreaker(n) /\ GatewayOnly
    \/ now < MaxNow /\ Tick /\ BreakerOnly /\ UNCHANGED gwvars

SpecIsolation == Init /\ [][NextIsolation]_vars

(***************************************************************************)
(* The treasurer under any auto-approve threshold, serving one service     *)
(* that has an allocation or none.                                         *)
(***************************************************************************)
\* the values of config.autoApproveUnder
Thresholds == 0..MaxAmount

\* BudgetManager.isAutoApprovable with config.autoApproveUnder = th
isAutoApprovableUnder(th, amount) == amount <= th

\* a treasurer that declines what is not auto-approvable
proceedsGated(th, es, ds, al, day, agentId, amount) ==
    /\ canApprove(es, ds, al, day, agentId, amount) = "ok"
    /\ isAutoApprovableUnder(th, amount)

\* onPaymentRequired goes on to reserve: the budget check allows; an amount
\* that is not auto-approvable is logged and let through
proceeds(th, es, ds, al, day, agentId, amount) ==
    IF canApprove(es, ds, al, day, agentId, amount) # "ok" THEN FALSE
    ELSE IF ~isAutoApprovableUnder(th, amount) THEN TRUE
    ELSE TRUE

\* onPaymentRequired up to the await of the wallet, with threshold th
onPaymentRequiredUnder(th, agentId, amount) ==
    IF proceeds(th, entries, dailySpending, agentAllocations, today, agentId, amount)
    THEN /\ agentAllocations' = reserve(agentAllocations, agentId, amount)
         /\ suspended' = Append(suspended, [agentId |-> agentId, amount |-> amount])
         /\ UNCHANGED <<entries, dailySpending, pendingContexts, today, ret>>
    ELSE /\ ret' = [value |-> "null", why |-> "denied"]
         /\ UNCHANGED <<entries, dailySpending, agentAllocations, pendingContexts,
                        suspended, today>>

NextAdvisory ==
    \/ \E a \in Observed, x \in 1..MaxAlloc :
          SetUp /\ allocateToAgent(a, x) /\ TreasurerOnly
    \/ \E th \in Thresholds, a \in Observed, x \in Amounts :
          /\ Len(suspended) < MaxSuspended
          /\ Len(suspended) + Len(entries) < MaxEntries
          /\ onPaymentRequiredUnder(th, a, x)
          /\ TreasurerOnly
    \/ \E i \in DOMAIN suspended :
          Len(entries) < MaxSettled /\ onPaymentRequiredAuthorized(i) /\ TreasurerOnly
    \/ \E i \in DOMAIN suspended : onPaymentRequiredWalletFailed(i) /\ TreasurerOnly
    \/ \E s \in ObservedStatuses, i \in DOMAIN entries :
          WithinBucket(s, i) /\ onStatus(s, i) /\ TreasurerOnly

SpecAdvisory == Init /\ [][NextAdvisory]_vars

(***************************************************************************)
(* BudgetManager.getStatus: the snapshot.  byAgent has one element for     *)
(* each id collected in the Set `agents`; lastUpdated and the percentage,  *)
(* a float, are left out.                                                  *)
(***************************************************************************)
getStatus(es, ds, al, day) ==
    [totalBudget |-> totalBudget,
     totalSpent |-> getTotalSpent(es),
     remaining |-> totalBudget - getTotalSpent(es),
     dailySpent |-> getTodaySpending(ds, day),
     dailyRemaining |-> dailyLimit - getTodaySpending(ds, day),
     byAgent |-> [a \in DOMAIN al |-> [agentId |-> a, spent |-> getSpentByAgent(es, a)]]]

\* treasurer.getBudgetStatus(): the snapshot is returned
getStatusCall ==
    /\ ret' = [value |-> "status", why |-> "-",
               status |-> getStatus(entries, dailySpending, agentAllocations, today)]
    /\ UNCHANGED <<entries, dailySpending, agentAllocations, pendingContexts, suspended,
                   today>>

(***************************************************************************)
(* The treasurer asked for its status between payments: service A may get  *)
(* an allocation, service B has none.                                      *)
(***************************************************************************)
NextSnapshot ==
    \/ \E a \in Observed, x \in 1..MaxAlloc :
          SetUp /\ allocateToAgent(a, x) /\ TreasurerOnly
    \/ \E a \in Agents, x \in Amounts :
          /\ Len(suspended) < MaxSuspended
          /\ Len(suspended) + Len(entries) < MaxEntries
          /\ onPaymentRequiredReserve(a, x)
          /\ TreasurerOnly
    \/ \E i \in DOMAIN suspended : onPaymentRequiredAuthorized(i) /\ TreasurerOnly
    \/ \E s \in {"accepted", "rejected"}, i \in DOMAIN pendingContexts :
          WithinBucket(s, i) /\ onStatus(s, i) /\ TreasurerOnly
    \/ getStatusCall /\ TreasurerOnly
    \/ today < MaxDay /\ NextDay /\ TreasurerOnly

SpecSnapshot == Init /\ [][NextSnapshot]_vars

(***************************************************************************)
(*                       T R E A S U R E R   C L A I M S                   *)
(***************************************************************************)
Allocated == DOMAIN agentAllocations

\* C1: for every service with an allocation, spentByAgent plus the reserved
\* counter is at most the allocated amount, after every sequence of
\* onPaymentRequired / onStatus calls.
C1_SpentPlusReservedWithinAllocation ==
    \A a \in Allocated :
        getSpentByAgent(entries, a) + agentAllocations[a].reserved
            <= agentAllocations[a].allocated

\* C2: the sum of the accepted entries never exceeds totalBudget, whatever
\* the sequence of onPaymentRequired calls and later settlements.
C2_TotalSpentWithinBudget ==
    getTotalSpent(entries) <= totalBudget

TerminalEntry(i) == entries[i].status \in {"accepted", "rejected", "error"}

\* C3: an entry that is terminal keeps its status, and an onStatus call on a
\* terminal entry leaves the entry and every daily bucket unchanged.
C3_TerminalEntriesAreFinal ==
    [][ /\ \A i \in DOMAIN entries :
             TerminalEntry(i) => entries'[i].status = entries[i].status
        /\ \A s \in Statuses, i \in DOMAIN entries :
             (TerminalEntry(i) /\ onStatus(s, i))
                 => (entries' = entries /\ dailySpending' = dailySpending)
      ]_vars

\* two calls of one allocated service that overlap: i was suspended in the
\* wallet when j was approved
Overlapping(i, j) ==
    /\ i \in DOMAIN suspended /\ j \in DOMAIN suspended /\ i < j
    /\ suspended[i].agentId = suspended[j].agentId
    /\ suspended[i].agentId \in Allocated

\* C4 (as stated): two overlapping calls of an allocated service are never
\* both approved when the sum of their amounts exceeds what was available
\* (allocated - spentByAgent - reserved) before the first call.
C4_OverlappingCallsWithinAvailable ==
    \A i, j \in DOMAIN suspended :
        Overlapping(i, j)
            => suspended[i].amount + suspended[j].amount <= hist[i].availBefore

\* C4 (amended): the first call's reservation is visible to the second
\* call's canApprove: two overlapping calls of an allocated service are
\* never both approved when the sum of their amounts exceeds what was
\* available before the first call, provided no other operation has raised
\* that service's available budget since the first call's reservation.
C4_OverlappingCallsWithinAvailableUndisturbed ==
    \A i, j \in DOMAIN suspended :
        (Overlapping(i, j) /\ hist[i].undisturbed)
            => suspended[i].amount + suspended[j].amount <= hist[i].availBefore

\* two overlapping calls were approved and use up exactly what was available
\* before the first; a third request has been denied
C4_Witness ==
    /\ \E i, j \in DOMAIN suspended :
          /\ Overlapping(i, j) /\ hist[i].undisturbed
          /\ suspended[i].amount + suspended[j].amount = hist[i].availBefore
    /\ ret = [value |-> "null", why |-> "denied"]

\* the step in which the wallet fails for the i-th suspended call
WalletFailedStep(i) ==
    /\ i \in DOMAIN suspended
    /\ suspended' = RemoveAt(suspended, i)
    /\ ret' = [value |-> "null", why |-> "wallet"]

\* C5: when wallet.createPayment fails, onPaymentRequired returns none and
\* nothing of the call survives: the service's reserved counter is what it
\* would be had the call reserved nothing (its value before the call's
\* reservation, with the other calls' reservations and releases applied),
\* and no ledger entry and no pending correlation is added.
C5_WalletFailureRollsBack ==
    [][ \A i \in DOMAIN suspended :
          WalletFailedStep(i) =>
            /\ entries' = entries
            /\ pendingContexts' = pendingContexts
            /\ dailySpending' = dailySpending
            /\ suspended[i].agentId \in Allocated =>
                  agentAllocations'[suspended[i].agentId].reserved = hist[i].without
      ]_vars

\* C6: for a pending entry of amount x on an allocated service, onStatus
\* with rejected, declined or error sets the entry to rejected or error,
\* lowers the service's reserved counter by exactly x and removes the
\* pending correlation; onStatus with accepted sets the entry to accepted
\* and removes the correlation.
C6_TerminalStatusSettles ==
    [][ \A s \in {"accepted", "rejected", "declined", "error"}, i \in DOMAIN entries :
          ( /\ entries[i].status = "pending"
            /\ entries[i].agentId \in Allocated
            /\ onStatus(s, i) ) =>
            /\ entries'[i].status = ledgerStatus(s)
            /\ i \notin DOMAIN pendingContexts'
            /\ s # "accepted" =>
                  agentAllocations'[entries[i].agentId].reserved =
                    agentAllocations[entries[i].agentId].reserved - entries[i].amount
      ]_vars

(***************************************************************************)
(*                    C I R C U I T   B R E A K E R   C L A I M S          *)
(***************************************************************************)
Failing(n) == \E adm \in Admissions : operationFails(n, adm)

Succeeding(n) == \E adm \in Admissions : operationSucceeds(n, adm)

Elapsed(n) == now - circuitBreakers[n].lastFailure

\* C7: from closed the breaker opens exactly when failureThreshold failures
\* have completed with no success in between; a success while closed sets
\* the failure count to 0 and leaves the circuit closed.
C7_OpensAtFailureThreshold ==
    [][ \A n \in Breakers :
          /\ (circuitBreakers[n].state = "closed" /\ circuitBreakers'[n].state = "open")
                => (Failing(n) /\ streak'[n] = failureThreshold)
          /\ (circuitBreakers[n].state = "closed" /\ Failing(n)
                /\ streak'[n] >= failureThreshold)
                => circuitBreakers'[n].state = "open"
          /\ (circuitBreakers[n].state = "closed" /\ Succeeding(n))
                => (circuitBreakers'[n].state = "closed"
                    /\ circuitBreakers'[n].failures = 0)
      ]_vars

\* the fifth consecutive failure has just opened the circuit
C7_Witness ==
    \E n \in Breakers :
        /\ circuitBreakers[n].state = "open"
        /\ streak[n] = failureThreshold
        /\ circuitBreakers[n].failures = failureThreshold
        /\ cbRet.kind = "error"

\* C8: while the breaker is open and less than the cooldown has elapsed
\* since the last failure, execute fails at once with the circuit-open
\* error carrying cooldown - elapsed (not negative), invokes nothing and
\* leaves the breaker's state and counters unchanged.
C8_OpenRejectsWithRemainingCooldown ==
    [][ \A n \in Breakers :
          ( /\ circuitBreakers[n].state = "open"
            /\ circuitBreakers[n].lastFailure # NoFailure
            /\ Elapsed(n) < timeout
            /\ execute(n) ) =>
            /\ cbRet' = [kind |-> "circuit-open", retryAfterMs |-> timeout - Elapsed(n)]
            /\ cbRet'.retryAfterMs >= 0
            /\ circuitBreakers' = circuitBreakers
            /\ inflight' = inflight
      ]_vars

\* a call has just been rejected part of the way through the cooldown
C8_Witness ==
    \E n \in Breakers :
        /\ circuitBreakers[n].state = "open"
        /\ Elapsed(n) > 0 /\ Elapsed(n) < timeout
        /\ cbRet = [kind |-> "circuit-open", retryAfterMs |-> timeout - Elapsed(n)]

\* C9: when the breaker is open and at least the cooldown has elapsed since
\* the last failure, execute moves it to half-open and invokes the
\* operation; the breaker never goes from open to half-open earlier.
C9_HalfOpenAfterCooldown ==
    [][ \A n \in Breakers :
          /\ ( /\ circuitBreakers[n].state = "open"
               /\ circuitBreakers[n].lastFailure # NoFailure
               /\ Elapsed(n) >= timeout
               /\ execute(n) ) =>
               /\ circuitBreakers'[n].state = "half-open"
               /\ inflight'[n].halfOpen = inflight[n].halfOpen + 1
          /\ (circuitBreakers[n].state = "open"
                /\ circuitBreakers'[n].state = "half-open") =>
               /\ circuitBreakers[n].lastFailure # NoFailure
               /\ Elapsed(n) >= timeout
      ]_vars

\* the trial call is in flight, admitted exactly when the cooldown ended
C9_Witness ==
    \E n \in Breakers :
        /\ circuitBreakers[n].state = "half-open"
        /\ inflight[n].halfOpen = 1
        /\ Elapsed(n) = timeout

\* C10: in half-open, the success that brings the count to successThreshold
\* closes the circuit with both counters at 0, an earlier one only counts;
\* a failure reopens the circuit at once and sets the success count to 0;
\* the count starts from 0 whenever half-open is entered.
C10_HalfOpenClosesOrReopens ==
    [][ \A n \in Breakers :
          /\ (circuitBreakers[n].state = "half-open" /\ Succeeding(n)) =>
               IF circuitBreakers[n].successes + 1 >= successThreshold
               THEN /\ circuitBreakers'[n].state = "closed"
                    /\ circuitBreakers'[n].successes = 0
                    /\ circuitBreakers'[n].failures = 0
               ELSE /\ circuitBreakers'[n].state = "half-open"
                    /\ circuitBreakers'[n].successes = circuitBreakers[n].successes + 1
          /\ (circuitBreakers[n].state = "half-open" /\ Failing(n)) =>
               /\ circuitBreakers'[n].state = "open"
               /\ circuitBreakers'[n].successes = 0
          /\ (circuitBreakers[n].state # "half-open"
                /\ circuitBreakers'[n].state = "half-open") =>
               circuitBreakers'[n].successes = 0
      ]_vars

\* half-open with all but one of the needed successes counted
C10_Witness ==
    \E n \in Breakers :
        /\ circuitBreakers[n].state = "half-open"
        /\ circuitBreakers[n].successes = successThreshold - 1
        /\ cbRet.kind = "result"

(***************************************************************************)
(*                B U D G E T   M A N A G E R   C L A I M S                *)
(***************************************************************************)
\* C11: for every allocated service the reserved counter is never negative,
\* whatever reserve and releaseReservation calls are made, releases larger
\* than the amount currently reserved included.
C11_ReservedNeverNegative ==
    \A a \in Allocated : agentAllocations[a].reserved >= 0

\* a reservation is still held by its caller while a release of an amount
\* nobody held has brought the counter down to the floor
C11_Witness ==
    \E i \in DOMAIN held :
        /\ held[i].agentId \in Allocated
        /\ agentAllocations[held[i].agentId].reserved = 0

\* the four checks of the contract, in their order
Checks(agentId, amount) ==
    << amount <= perRequestLimit,
       getTodaySpending(dailySpending, today) + amount <= dailyLimit,
       getTotalSpent(entries) + amount <= totalBudget,
       agentId \in Allocated =>
           Available(entries, agentAllocations, agentId) >= amount >>

Reasons == <<"per-request", "daily", "total", "allocation">>

\* the reason of the first check that fails, or "ok"
FirstFailing(agentId, amount) ==
    LET passed == Checks(agentId, amount)
        failing == {k \in 1..4 : ~passed[k]}
    IN  IF failing = {} THEN "ok"
        ELSE Reasons[CHOOSE k \in failing : \A j \in failing : k <= j]

\* C12: canApprove denies with the reason of the first failing check in the
\* order per-request limit, daily limit, total budget, agent allocation,
\* allows exactly when all four hold (an amount equal to a limit passes),
\* and changes no state.
C12_CanApproveFirstFailingCheck ==
    [][ \A a \in Agents, x \in Amounts :
          canApproveCall(a, x) =>
            /\ LET first == FirstFailing(a, x)
               IN  ret' = [value |-> IF first = "ok" THEN "allowed" ELSE "denied",
                           why |-> first]
            /\ UNCHANGED <<entries, dailySpending, agentAllocations, pendingContexts,
                           suspended, today, held>>
      ]_vars

\* the total budget denies a request that the daily limit lets through
C12_Witness ==
    /\ ret = [value |-> "denied", why |-> "total"]
    /\ getTotalSpent(entries) > 0
    /\ getTodaySpending(dailySpending, today) = 0

\* C13: reserve returns a token exactly when canApprove allows in the same
\* state; on success with an allocation the reserved counter grows by
\* exactly the amount and nothing else changes; on denial, and on success
\* without an allocation, nothing changes.
C13_ReserveHoldsExactlyTheAmount ==
    [][ \A a \in Agents, x \in Amounts :
          reserveCall(a, x) =>
            LET ok == canApprove(entries, dailySpending, agentAllocations, today, a, x) = "ok"
            IN  /\ (ret'.value = "token") <=> ok
                /\ (ret'.value = "null") <=> ~ok
                /\ IF ok /\ a \in Allocated
                   THEN agentAllocations' =
                            [agentAllocations EXCEPT ![a].reserved = @ + x]
                   ELSE agentAllocations' = agentAllocations
                /\ UNCHANGED <<entries, dailySpending, pendingContexts, suspended, today>>
      ]_vars

\* one reserve took more than half of the allocation and holds it; a second
\* reserve on the same service has been denied for the allocation
C13_Witness ==
    /\ ret = [value |-> "null", why |-> "allocation"]
    /\ Len(held) = 1
    /\ agentAllocations[held[1].agentId].reserved = held[1].amount
    /\ 2 * held[1].amount > agentAllocations[held[1].agentId].allocated
    /\ getTotalSpent(entries) = 0

RECURSIVE HeldSum(_, _)
\* what the callers hold on the service, from the k-th reservation on
HeldSum(agentId, k) ==
    IF k > Len(held) THEN 0
    ELSE (IF held[k].agentId = agentId THEN held[k].amount ELSE 0)
            + HeldSum(agentId, k + 1)

\* every reservation in flight is counted in its service's reserved counter
Backed ==
    \A a \in Allocated : agentAllocations[a].reserved >= HeldSum(a, 1)

\* C20: releaseReservation sets reserved to max(0, reserved - amount) for an
\* allocated service and does nothing for a service without an allocation;
\* a release of an amount that is not (or no longer) reserved does not
\* release budget held by another reservation in flight on the service.
C20_ReleaseSafeAgainstDoubleRelease ==
    [][ \A a \in Agents, x \in Amounts :
          (releaseUnheld(a, x) /\ Backed) =>
            /\ IF a \in Allocated
               THEN agentAllocations' =
                        [agentAllocations EXCEPT ![a].reserved =
                            IF @ - x > 0 THEN @ - x ELSE 0]
               ELSE agentAllocations' = agentAllocations
            /\ Backed'
      ]_vars

(***************************************************************************)
(*                 M A S T E R   T R E A S U R E R   C L A I M S           *)
(***************************************************************************)
\* C14: onPaymentRequired with an empty requirements list returns none and
\* leaves the ledger entries, the daily buckets, every reserved counter and
\* the pending-correlation table unchanged, and does not call the wallet.
C14_EmptyRequirementsChangeNothing ==
    [][ onPaymentRequiredEmpty =>
          /\ ret'.value = "null"
          /\ UNCHANGED <<entries, dailySpending, agentAllocations, pendingContexts>>
          /\ suspended' = suspended
      ]_vars

\* none was returned for an empty list while the service holds a
\* reservation, a pending correlation and a ledger entry
C14_Witness ==
    /\ ret = [value |-> "null", why |-> "empty"]
    /\ entries # << >>
    /\ suspended # << >>
    /\ DOMAIN pendingContexts # {}
    /\ \E a \in Allocated : agentAllocations[a].reserved > 0

(***************************************************************************)
(*                   P A Y M E N T   L E D G E R   C L A I M S             *)
(***************************************************************************)
\* C17: importing the document that export produces, into a new ledger or
\* one in use, yields the same totalSpent, the same spentByAgent for every
\* service and the same todaySpending as the exported ledger, and nothing
\* of what the importing ledger held before remains.
C17_ImportOfExportKeepsTotals ==
    [][ \A t \in Targets :
          importFromJson(t) =>
            /\ getTotalSpent(entries') = getTotalSpent(entries)
            /\ \A a \in Agents : getSpentByAgent(entries', a) = getSpentByAgent(entries, a)
            /\ \A d \in Days :
                  getTodaySpending(dailySpending', d) = getTodaySpending(dailySpending, d)
            /\ DOMAIN entries' = DOMAIN entries
            /\ \A i \in DOMAIN entries : entries'[i].id = entries[i].id
            /\ \A d \in Days : dailySpending[d] = 0 => dailySpending'[d] = 0
      ]_vars

\* a ledger in use has imported the document of a ledger in which both
\* services have spent and both days have a bucket
C17_Witness ==
    /\ ret = [value |-> "imported", why |-> "into-used"]
    /\ \A a \in Agents : getSpentByAgent(entries, a) > 0
    /\ \A d \in Days : dailySpending[d] > 0

\* C18: a daily bucket changes only when an entry reaches accepted; that
\* transition adds the entry's amount to the bucket of the day of the
\* transition; recordAuthorization and every status update to another value
\* leave all buckets unchanged.
C18_BucketsChangeOnlyOnAcceptance ==
    [][ /\ (dailySpending' # dailySpending) =>
              \E i \in DOMAIN entries :
                  /\ entries[i].status # "accepted"
                  /\ i \in DOMAIN entries' /\ entries'[i].status = "accepted"
                  /\ dailySpending' =
                        addToDailySpending(dailySpending, today, entries[i].amount)
        /\ \A i \in DOMAIN entries :
              ( /\ entries[i].status # "accepted"
                /\ updateStatusCall(i, "accepted") ) =>
                  dailySpending' = addToDailySpending(dailySpending, today, entries[i].amount)
      ]_vars

\* C19: recordAuthorization creates a pending entry with the requirement's
\* amount when the id is new, and fails when the id is already present,
\* leaving the existing entry unchanged.
C19_RecordAuthorizationRefusesUsedId ==
    [][ \A id \in 1..(Len(entries) + 1), a \in Agents, x \in Amounts :
          recordAuthorizationCall(id, a, x) =>
            IF id \in DOMAIN entries
            THEN entries' = entries
            ELSE entries' = Append(entries, [id |-> id, agentId |-> a, amount |-> x,
                                             status |-> "pending"])
      ]_vars


(***************************************************************************)
(*                        G A T E W A Y   C L A I M S                      *)
(***************************************************************************)
\* the errors a ToolResult of callTool carries
ToolErrors == {"not-found", "no-connection", "unavailable", "fault", "tool-error"}

\* the call is over and callTool handed this failure to its caller
FailedWith(error, n, hint) ==
    /\ call'.phase = "done"
    /\ gwRet' = [success |-> FALSE, error |-> error, from |-> n, retryAfterS |-> hint]

\* C16: callTool never raises to its caller: an unknown service, a missing
\* client, an open circuit, a fault of the remote call and a result flagged
\* as an error each give {success: false, error}.  An open circuit gives the
\* 'temporarily unavailable' error with the seconds left of the cooldown and
\* the remote call is not invoked; an unknown service or a missing client
\* gives a failure and no breaker is created or touched.
C16_CallToolNeverRaises ==
    [][ /\ \A n \in Callees :
            callTool(n) =>
              IF n \notin DOMAIN registry
              THEN FailedWith("not-found", n, 0) /\ UNCHANGED cbvars
              ELSE IF ~registry[n].client
              THEN FailedWith("no-connection", n, 0) /\ UNCHANGED cbvars
              ELSE IF n \in Breakers /\ circuitBreakers[n].state = "open"
                      /\ Elapsed(n) < timeout
              THEN /\ FailedWith("unavailable", n,
                                 CeilSeconds(timeout - Elapsed(n)))
                   /\ gwRet'.retryAfterS > 0
                   /\ UNCHANGED <<circuitBreakers, inflight, streak>>
              ELSE /\ call'.phase = "awaiting"
                   /\ call'.target = n
                   /\ inflight'[n].closed + inflight'[n].halfOpen =
                        (IF n \in Breakers THEN InflightCount(n) ELSE 0) + 1
        /\ call.phase = "awaiting" /\ call.mode = "tool" /\ call' # call =>
              /\ call'.phase = "done"
              /\ gwRet'.from = call.target
              /\ gwRet'.success \/ gwRet'.error \in {"fault", "tool-error"}
              /\ gwRet'.error = "fault" <=> Failing(call.target)
        /\ call'.mode = "tool" /\ call'.phase = "done" =>
              gwRet'.success \/ gwRet'.error \in ToolErrors
      ]_vars

\* an open circuit answered a call with the seconds left of a cooldown that
\* had begun to run down
C16_Witness ==
    /\ call.phase = "done" /\ call.mode = "tool"
    /\ gwRet.error = "unavailable"
    /\ gwRet.retryAfterS > 0 /\ gwRet.retryAfterS < CeilSeconds(timeout)
    /\ gwRet.from \in Breakers
    /\ circuitBreakers[gwRet.from].state = "open"

\* the fallback ids of the call from position i on that may be tried now:
\* the descriptor is there, is healthy and has the operation
MayTry(i) ==
    {j \in DOMAIN call.fallbacks :
        /\ j >= i
        /\ call.fallbacks[j] \in DOMAIN registry
        /\ registry[call.fallbacks[j]].status = "healthy"
        /\ registry[call.fallbacks[j]].hasTool}

\* callTool of service n has begun within the call and is not over
Invoking(n) ==
    /\ call'.phase \in {"awaiting", "returned"}
    /\ call'.target = n
    /\ call'.invoked = Append(call.invoked, n)

\* C15: callToolWithFallback tries the primary first and returns its result
\* if it succeeds, invoking no fallback; otherwise it tries the fallbacks in
\* list order, never one whose descriptor is missing, not healthy or without
\* the operation; the first success is returned and no later fallback is
\* invoked; if no call succeeds, none qualifying included, the failure names
\* the primary.
C15_FallbackInOrderFirstSuccess ==
    [][ /\ \A fbs \in FallbackLists :
            callToolWithFallback("A", fbs) =>
              /\ call'.invoked = <<"A">>
              /\ call'.primary = "A"
              /\ call'.phase = "awaiting" => call'.target = "A"
              /\ call'.phase # "awaiting" => call'.phase = "returned" /\ call'.idx = 1
        /\ call.mode = "fallback" /\ call.phase = "awaiting" /\ call' # call =>
              IF Succeeding(call.target) /\ cbRet'.kind = "result" /\ gwRet'.success
              THEN /\ call'.phase = "done"
                   /\ gwRet'.from = call.target
                   /\ call'.invoked = call.invoked
                   /\ call.target = call.invoked[Len(call.invoked)]
              ELSE /\ call'.phase = "returned"
                   /\ call'.invoked = call.invoked
                   /\ call'.idx = call.idx
        /\ call.mode = "fallback" /\ call.phase = "returned" /\ call' # call =>
              IF MayTry(call.idx) = {}
              THEN /\ call'.phase = "done"
                   /\ ~gwRet'.success
                   /\ gwRet'.error = "all-failed"
                   /\ gwRet'.from = call.primary
                   /\ call'.invoked = call.invoked
              ELSE \E j \in MayTry(call.idx) :
                      /\ \A m \in MayTry(call.idx) : j <= m
                      /\ Invoking(call.fallbacks[j])
                      /\ call'.idx = j + 1
        /\ call.mode = "fallback" /\ call.phase = "done" =>
              call'.mode # "fallback" \/ call' = call \/ call'.invoked = <<"A">>
        /\ call'.mode = "fallback" /\ call'.phase = "done" /\ gwRet'.success =>
              gwRet'.from = call'.invoked[Len(call'.invoked)]
      ]_vars

\* the primary failed, the first fallback of the list was passed over though
\* it is registered, the second was called and its result returned
C15_Witness ==
    /\ call.phase = "done" /\ call.mode = "fallback"
    /\ gwRet.success
    /\ Len(call.fallbacks) = 2
    /\ call.fallbacks[1] \in DOMAIN registry
    /\ call.invoked = <<"A", call.fallbacks[2]>>
    /\ gwRet.from = call.fallbacks[2]

(***************************************************************************)
(*              C I R C U I T   B R E A K E R   C L A I M S,  II           *)
(***************************************************************************)
\* C23: reset() on a breaker in any state, with any counters, gives state
\* closed, failure count 0, success count 0 and no last failure; an execute
\* call on the breaker as reset left it invokes its operation.
C23_ResetClosesAndClears ==
    [][ \A n \in Breakers :
          /\ reset(n) =>
                /\ circuitBreakers'[n].state = "closed"
                /\ circuitBreakers'[n].failures = 0
                /\ circuitBreakers'[n].successes = 0
                /\ circuitBreakers'[n].lastFailure = NoFailure
          /\ (execute(n) /\ circuitBreakers[n] = newBreaker) =>
                /\ InflightCount(n)' = InflightCount(n) + 1
                /\ cbRet' = cbRet
                /\ circuitBreakers'[n].state = "closed"
      ]_vars

\* a breaker that rejected a call while open has been reset, the clock
\* having advanced: only reset clears the last failure
C23_Witness ==
    \E n \in Breakers :
        /\ circuitBreakers[n] = newBreaker
        /\ cbRet.kind = "circuit-open"
        /\ cbRet.retryAfterMs > 0
        /\ now > 0

\* C27: the operations in flight that were admitted while the breaker was
\* half-open are never more than successThreshold.
C27_HalfOpenAdmitsLimitedTrials ==
    \A n \in Breakers : inflight[n].halfOpen <= successThreshold

\* C30: in every reachable breaker state: closed implies failures <
\* failureThreshold; successes < successThreshold; successes > 0 only while
\* half-open; open or half-open implies a last failure is recorded.
C30_BreakerStateInvariants ==
    \A n \in Breakers :
        LET cb == circuitBreakers[n] IN
        /\ cb.state \in {"closed", "open", "half-open"}
        /\ cb.state = "closed" => cb.failures < failureThreshold
        /\ cb.successes >= 0 /\ cb.successes < successThreshold
        /\ cb.successes > 0 => cb.state = "half-open"
        /\ cb.state \in {"open", "half-open"} => cb.lastFailure # NoFailure

\* half-open with a trial success counted, while an operation admitted
\* before the circuit opened is still in flight
C30_Witness ==
    \E n \in Breakers :
        /\ circuitBreakers[n].state = "half-open"
        /\ circuitBreakers[n].successes = successThreshold - 1
        /\ inflight[n].closed > 0
        /\ inflight[n].halfOpen > 0

(***************************************************************************)
(*                    T R E A S U R E R   C L A I M S,  II                 *)
(***************************************************************************)
\* C22: onStatus with a status outside the five named ones is treated as
\* pending: for a pending authorization the entry stays pending, the
\* reserved counters are unchanged and the correlation is kept, so that
\* repeating the status changes nothing.
C22_OtherStatusChangesNothing ==
    [][ \A i \in DOMAIN entries :
          (entries[i].status = "pending" /\ onStatus("other", i)) =>
            /\ entries' = entries
            /\ agentAllocations' = agentAllocations
            /\ pendingContexts' = pendingContexts
            /\ dailySpending' = dailySpending
      ]_vars

\* C25: for every day, the accepted amount accumulated in the day's bucket
\* is at most dailyLimit.
C25_DailyBucketWithinLimit ==
    \A d \in Days : dailySpending[d] <= dailyLimit

RECURSIVE SuspendedSum(_, _)
\* the amounts of the first k suspended calls that are of the service
SuspendedSum(agentId, k) ==
    IF k = 0 THEN 0
    ELSE (IF suspended[k].agentId = agentId THEN suspended[k].amount ELSE 0)
         + SuspendedSum(agentId, k - 1)

\* the amounts of the service's authorizations that are reserved and not
\* settled: awaiting the wallet, or pending in the ledger
InFlight(agentId) ==
    SuspendedSum(agentId, Len(suspended))
    + SumAmount(entries, {i \in DOMAIN entries :
                            entries[i].agentId = agentId /\ entries[i].status = "pending"})

\* C26: for every allocated service the reserved counter is the sum of the
\* amounts of its in-flight authorizations; once all have a terminal status
\* reserved is 0.
C26_ReservedIsInFlight ==
    \A a \in Allocated : agentAllocations[a].reserved = InFlight(a)

RECURSIVE BucketSum(_)
BucketSum(ds) ==
    IF ds = {} THEN 0
    ELSE LET d == CHOOSE x \in ds : TRUE
         IN  dailySpending[d] + BucketSum(ds \ {d})

\* C28: the sum of all daily buckets equals totalSpent, the sum of the
\* amounts of the accepted entries.
C28_BucketsSumToTotalSpent ==
    BucketSum(Days) = getTotalSpent(entries)

\* C29: a pending correlation exists for an authorization id exactly when
\* the ledger entry of that id is pending.
C29_CorrelationIffPending ==
    /\ DOMAIN pendingContexts \subseteq DOMAIN entries
    /\ \A i \in DOMAIN entries :
          i \in DOMAIN pendingContexts <=> entries[i].status = "pending"

\* C21: onStatus with sending for a pending authorization is not terminal:
\* the entry stays pending, the reserved counters and the daily buckets are
\* unchanged and the correlation is kept; a rejected, declined or error
\* status that follows then releases the reservation and removes the
\* correlation.
C21_SendingIsNotTerminal ==
    [][ \A i \in DOMAIN entries :
          /\ (entries[i].status = "pending" /\ onStatus("sending", i)) =>
                /\ entries' = entries
                /\ agentAllocations' = agentAllocations
                /\ dailySpending' = dailySpending
                /\ pendingContexts' = pendingContexts
          /\ \A s \in {"rejected", "declined", "error"} :
                ( /\ seen.cur = "sending"
                  /\ entries[i].status = "pending"
                  /\ i \in DOMAIN pendingContexts
                  /\ entries[i].agentId \in Allocated
                  /\ onStatus(s, i) ) =>
                  /\ agentAllocations'[entries[i].agentId].reserved =
                        IF agentAllocations[entries[i].agentId].reserved > entries[i].amount
                        THEN agentAllocations[entries[i].agentId].reserved - entries[i].amount
                        ELSE 0
                  /\ agentAllocations'[entries[i].agentId].reserved
                        < agentAllocations[entries[i].agentId].reserved
                     \/ agentAllocations[entries[i].agentId].reserved = 0
                  /\ i \notin DOMAIN pendingContexts'
                  /\ entries'[i].status = ledgerStatus(s)
      ]_vars

\* sending was reported first for the authorization, rejected after it, and
\* the reservation is gone with the correlation
C21_Witness ==
    /\ seen = [prev |-> "sending", cur |-> "rejected"]
    /\ Len(entries) = 1 /\ entries[1].status = "rejected"
    /\ entries[1].agentId \in Allocated
    /\ agentAllocations[entries[1].agentId].reserved = 0
    /\ suspended = << >>
    /\ pendingContexts = EmptyMap
    /\ \A d \in Days : dailySpending[d] = 0

\* the context names no service: it is missing, or neither its metadata
\* nor its params hold an agentId
NoAgentIn(ctx) ==
    ~ctx.present \/ (ctx.metaAgentId = Absent /\ ctx.paramsAgentId = Absent)

\* the context names no tool: it is missing, or it is no tools/call with a
\* name and its metadata hold no toolName
NoToolIn(ctx) ==
    \/ ~ctx.present
    \/ /\ ctx.method # "tools/call" \/ ctx.paramsName = Absent
       /\ ctx.metaToolName = Absent

\* C24: onPaymentRequired never raises: a denial, a failed reservation and
\* a wallet failure each return none, and a missing context or missing
\* metadata fields give the service id and the tool name 'unknown'.
C24_OnPaymentRequiredNeverRaises ==
    [][ /\ \A ctx \in Contexts, x \in Amounts :
            onPaymentRequired(ctx, x) =>
              /\ NoAgentIn(ctx) => named'.agentId = "unknown"
              /\ ~NoAgentIn(ctx) => named'.agentId \in Agents
              /\ NoToolIn(ctx) => named'.toolName = "unknown"
              /\ IF canApprove(entries, dailySpending, agentAllocations, today,
                               named'.agentId, x) = "ok"
                 THEN /\ suspended' = Append(suspended, [agentId |-> named'.agentId,
                                                        amount |-> x])
                      /\ ret' = ret
                 ELSE /\ ret' = [value |-> "null", why |-> "denied"]
                      /\ UNCHANGED <<entries, dailySpending, agentAllocations,
                                     pendingContexts, suspended>>
        /\ Len(suspended') < Len(suspended) =>
              \/ ret' = [value |-> "authorization", why |-> "-"]
              \/ ret' = [value |-> "null", why |-> "wallet"] /\ entries' = entries
        /\ ret'.value \in {"-", "null", "authorization"}
      ]_vars

\* a call without any name in its context was approved for service
\* 'unknown' and recorded; the wallet then failed for another call
C24_Witness ==
    /\ named = [agentId |-> "unknown", toolName |-> "unknown"]
    /\ \E i \in DOMAIN entries : entries[i].agentId = "unknown"
    /\ ret = [value |-> "null", why |-> "wallet"]

(***************************************************************************)
(*             C I R C U I T   B R E A K E R   C L A I M S,  III           *)
(***************************************************************************)
\* the changes of state of a breaker that execute and its completions make
Transitions ==
    {<<"closed", "open">>, <<"open", "half-open">>, <<"half-open", "open">>,
     <<"half-open", "closed">>}

\* C31: the state of a breaker changes only closed -> open, open ->
\* half-open, half-open -> open, half-open -> closed, and to closed by
\* reset(); an operation admitted before the circuit opened that succeeds
\* while it is open leaves it open, and so does one that fails.
C31_OnlyListedTransitions ==
    [][ \A n \in Breakers :
          /\ circuitBreakers'[n].state # circuitBreakers[n].state =>
                \/ <<circuitBreakers[n].state, circuitBreakers'[n].state>> \in Transitions
                \/ reset(n)
          /\ (circuitBreakers[n].state = "open" /\ (Succeeding(n) \/ Failing(n))) =>
                circuitBreakers'[n].state = "open"
          /\ (circuitBreakers[n].state = "open" /\ circuitBreakers'[n].state = "half-open") =>
                (execute(n) /\ Elapsed(n) >= timeout)
          /\ (circuitBreakers[n].state = "closed" /\ circuitBreakers'[n].state = "open") =>
                Failing(n)
      ]_vars

\* the circuit is open and the last completion was a success: an operation
\* admitted before the circuit opened has succeeded while it was open
C31_Witness ==
    \E n \in Breakers :
        /\ circuitBreakers[n].state = "open"
        /\ circuitBreakers[n].failures = 0
        /\ cbRet.kind = "result"

IsIn(n, state) == n \in Breakers /\ circuitBreakers[n].state = state

\* C34: if the breaker is open and from then on time advances, execute
\* keeps being called and every invoked operation succeeds, the breaker
\* becomes half-open and then closed, and stays closed.
C34_OpenRecovers ==
    \A n \in Guarded :
        /\ (IsIn(n, "open") /\ NoMoreFailures) ~> IsIn(n, "half-open")
        /\ (IsIn(n, "half-open") /\ NoMoreFailures) ~> IsIn(n, "closed")
        /\ []((IsIn(n, "closed") /\ NoMoreFailures) => []IsIn(n, "closed"))

\* the failures are over, the circuit has closed again and an operation
\* admitted as a trial is still in flight
C34_Witness ==
    \E n \in Breakers :
        /\ circuitBreakers[n].state = "closed"
        /\ circuitBreakers[n].lastFailure # NoFailure
        /\ now - circuitBreakers[n].lastFailure >= timeout
        /\ NoMoreFailures
        /\ inflight[n].halfOpen > 0

(***************************************************************************)
(*                     G A T E W A Y   C L A I M S,  II                    *)
(***************************************************************************)
\* C32: a remote call that returns a result flagged as an error makes
\* callTool return a failure, yet the breaker records a success: the failure
\* count is 0 afterwards, in half-open the result counts toward closing,
\* and no circuit opens on a step that returns such a result.
C32_ErrorResultCountsAsSuccess ==
    [][ /\ (call.phase = "awaiting" /\ remoteReturns("isError")) =>
              LET n == call.target
                  cb == circuitBreakers[n]
              IN  /\ gwRet' = Failure("tool-error", n, 0)
                  /\ circuitBreakers'[n].failures = 0
                  /\ streak'[n] = 0
                  /\ circuitBreakers'[n].lastFailure = cb.lastFailure
                  /\ cb.state # "open" => circuitBreakers'[n].state # "open"
                  /\ cb.state = "half-open" =>
                        IF cb.successes + 1 >= successThreshold
                        THEN circuitBreakers'[n].state = "closed"
                        ELSE circuitBreakers'[n].successes = cb.successes + 1
        /\ \A n \in Breakers :
              (circuitBreakers[n].state # "open" /\ circuitBreakers'[n].state = "open") =>
                  gwRet'.error = "fault"
      ]_vars

\* a trial call that ended with an error result has closed the circuit
C32_Witness ==
    /\ call.phase = "done"
    /\ call.adm = "halfOpen"
    /\ gwRet = Failure("tool-error", call.target, 0)
    /\ circuitBreakers[call.target].state = "closed"
    /\ circuitBreakers[call.target].lastFailure # NoFailure

\* the step leaves every breaker but that of service t as it is
OthersKept(t) ==
    \A m \in Breakers \ {t} :
        /\ m \in DOMAIN circuitBreakers'
        /\ circuitBreakers'[m] = circuitBreakers[m]
        /\ inflight'[m] = inflight[m]

\* C33: each service id has its own breaker, created by the first callTool
\* for that id that reaches the remote call and reused afterwards; what is
\* recorded or reset for one id changes no other id's breaker, and an open
\* circuit of one id does not block a call to another.
C33_OneBreakerPerService ==
    [][ /\ Breakers \subseteq DOMAIN circuitBreakers'
        /\ \A n \in Pair :
              /\ (n \notin Breakers /\ n \in DOMAIN circuitBreakers') =>
                    /\ callTool(n)
                    /\ n \in DOMAIN registry /\ registry[n].client
                    /\ call'.phase = "awaiting" /\ call'.target = n
                    /\ circuitBreakers'[n] = newBreaker
                    /\ DOMAIN circuitBreakers' = Breakers \cup {n}
              /\ (n \in Breakers /\ callTool(n) /\ registry[n].client) =>
                    circuitBreakers'[n] = executeEnter(circuitBreakers[n], now)
              /\ (callTool(n) \/ resetCircuitBreaker(n)) => OthersKept(n)
              /\ (call.phase = "awaiting" /\ call.target = n
                    /\ \E o \in Outcomes : remoteReturns(o)) => OthersKept(n)
              /\ ( /\ callTool(n)
                   /\ n \in DOMAIN registry /\ registry[n].client
                   /\ n \in Breakers =>
                         executeEnter(circuitBreakers[n], now).state # "open" ) =>
                    call'.phase = "awaiting"
      ]_vars

\* the circuit of one service is open while a call to the other, whose
\* breaker has recorded faults of its own, has been admitted
C33_Witness ==
    \E n, m \in Breakers :
        /\ n # m
        /\ circuitBreakers[n].state = "open"
        /\ circuitBreakers[m].state = "closed"
        /\ circuitBreakers[m].failures > 0
        /\ call.phase = "awaiting"
        /\ call.target = m

C36_UncorrelatedStatusReleasesNothing ==
    [][ \A s \in Statuses, i \in DOMAIN entries \cup {NoId} :
          (i \notin DOMAIN pendingContexts /\ onStatus(s, i)) =>
              /\ agentAllocations' = agentAllocations
              /\ pendingContexts' = pendingContexts
              /\ i \notin DOMAIN entries =>
                    entries' = entries /\ dailySpending' = dailySpending
      ]_vars

\* rejected has been reported twice for the one authorization while another
\* call of the service holds its reservation
C36_Witness ==
    /\ seen = [prev |-> "rejected", cur |-> "rejected"]
    /\ \E i \in DOMAIN entries :
          /\ i \notin DOMAIN pendingContexts
          /\ entries[i].agentId \in Allocated
          /\ agentAllocations[entries[i].agentId].reserved > 0
          /\ agentAllocations[entries[i].agentId].reserved =
                SuspendedSum(entries[i].agentId, Len(suspended))

(***************************************************************************)
(*               B U D G E T   M A N A G E R   C L A I M S,  II            *)
(***************************************************************************)
\* C37: once a service has an allocation its ceiling never changes, and its
\* reserved counter is changed only by reserve and releaseReservation; a
\* later allocateToAgent neither discards reservations nor moves the ceiling.
C37_AllocationFixedOnceMade ==
    [][ \A a \in Allocated :
          /\ a \in DOMAIN agentAllocations'
          /\ agentAllocations'[a].allocated = agentAllocations[a].allocated
          /\ agentAllocations'[a].reserved # agentAllocations[a].reserved =>
                \E x \in Amounts : reserveCall(a, x) \/ releaseReservationCall(a, x)
      ]_vars

\* the services with accepted spend
Spenders == {a \in Agents : getSpentByAgent(entries, a) > 0}

\* C38: the status snapshot has remaining = totalBudget - totalSpent and
\* dailyRemaining = dailyLimit - today's bucket, its per-service list has
\* one element, with spent = spentByAgent, for every service that has an
\* allocation or accepted spend, and taking it changes no state.
C38_StatusCoversEveryService ==
    [][ getStatusCall =>
          LET st == ret'.status
          IN  /\ st.remaining = totalBudget - getTotalSpent(entries)
              /\ st.dailyRemaining = dailyLimit - getTodaySpending(dailySpending, today)
              /\ DOMAIN st.byAgent = Allocated \cup Spenders
              /\ \A a \in DOMAIN st.byAgent :
                    st.byAgent[a].spent = getSpentByAgent(entries, a)
              /\ UNCHANGED <<entries, dailySpending, agentAllocations, pendingContexts,
                             suspended, today>>
      ]_vars

(***************************************************************************)
(*                    G A T E W A Y   C L A I M S,  III                    *)
(***************************************************************************)
\* C39: a remote call that does not complete within defaultTimeout is
\* ended and callTool returns a failure, so a callTool that is awaiting the
\* remote call with defaultTimeout still to pass eventually returns.
C39_CallToolEventuallyReturns ==
    (call.phase = "awaiting" /\ now + defaultTimeout <= MaxNow) ~> (call.phase = "done")

====
